---- MODULE Spec2Model ----
(***************************************************************************)
(* PatchWise, AiCodeReview: the LSP client that resolves the identifiers   *)
(* of a diff through a clangd subprocess                                   *)
(* (src/patchwise/patch_review/ai_review/ai_code_review.py).               *)
(*                                                                         *)
(* Spec models one context-extraction pass                                 *)
(* (process_diff_and_print_definitions with a non-empty file_adds): the    *)
(* client's position in the pass, the reader _read_lsp_response, the pipe  *)
(* from the subprocess, and the subprocess as an environment that may send *)
(* any frame, answer late, stall or die.                                   *)
(*                                                                         *)
(* Granularity.  The pipe holds frames; a frame's `shape` says what its    *)
(* bytes look like to the reader (well framed, header-less, header without *)
(* a length, ...).  A partial frame (parthdr, short) is the last thing the *)
(* subprocess writes: it then stalls or dies.  Reading one complete frame  *)
(* and dispatching it is one step; the client's code between two blocking  *)
(* reads runs in the step that ends the first read.                        *)
(*                                                                         *)
(* Interleaving.  The client reads a frame that is in the pipe before time *)
(* passes, and the subprocess writes a frame, or exits, when the pipe is   *)
(* empty: a frame written behind an unread frame reaches the client as one *)
(* written after the first was read, and an exit with unread frames is     *)
(* seen by the client (proc.poll() comes first) as an exit before they     *)
(* were written.  Time is the deadline of the call: not yet passed, or     *)
(* passed.                                                                 *)
(*                                                                         *)
(* Other specifications.  LogSpec is the pass with a subprocess that also  *)
(* writes to its standard error.  IndexSpec is one call of                 *)
(* wait_for_clangd_indexing (DrainSpec: with a subprocess that also sends  *)
(* window/workDoneProgress/create requests), DiffSpec one call of          *)
(* process_diff_and_print_definitions up to the start of the pass, with    *)
(* parse_diff taking the diff line by line, and ResolveSpec the loops of   *)
(* _collect_definitions and _process_file_identifiers over files and       *)
(* identifiers, with the answers of the session as inputs.  ContextSpec is *)
(* one call of _merge_and_build_context for any collected definitions,     *)
(* diff additions and file lengths, and TuiSpec one call of                *)
(* display_prompt_with_options (src/patchwise/utils/tui.py).  TwiceSpec is *)
(* two calls of parse_diff on the same lines, and ShutdownSpec the finally *)
(* clause of _collect_definitions, step by step.  VolumeSpec is a series   *)
(* of calls of DockerManager.initialize_shared_build_volume                *)
(* (src/patchwise/docker.py).  Each has its own variables; the variables   *)
(* of the others keep their initial values.                                *)
(***************************************************************************)
EXTENDS Integers, Sequences, FiniteSets, TLC

\* ------------------------------------------------------------ bounds
NumFiles == 2
NumIdents == 2
MaxNoise == 1
NumLocs == 1
MaxTime == 4
MaxInterval == 2
NumMessages == 2
MaxDiffLen == 5
MaxStart == 5
NumLines == 22
MaxOptions == 10
MaxKeys == 2
MaxExit == 7
MaxCalls == 3

\* ------------------------------------------------- program constants
INIT_MSG_ID == 1
DEFINITION_MSG_ID == 2
SYMBOL_MSG_ID == 3
DOC_SYMBOL_MSG_ID == 100
ACK_ID == 0
INIT_TIMEOUT == 10
READ_TIMEOUT == 30
INIT_SELECT_WAIT == 2
\* msg.get("id") of a frame without an id, msg_id=None of a notification
NoId == -1
\* value.get("percentage") of a value without one, last_percentage = None
NoPct == -1
PCT_DONE == 100
PCT_HALF == 50
\* last_value = None
NoValue == [percentage |-> NoPct, message |-> 0]
TOKEN_INDEX == "backgroundIndexProgress"
TOKEN_OTHER == "other"
MAX_GAP == 5
\* proc.wait(timeout=5)
WAIT_TIMEOUT == 5
\* ord("0"), ord("1"), ord("q")
ORD_ZERO == 48
ORD_ONE == 49
ORD_Q == 113
\* new_line = None; a cursor is -1 after a hunk header with new start 0
NoLine == -2
\* re.match(...) is None
NoMatch == -1
\* current_file = None
NoFile == 0

M_INITIALIZE == "initialize"
M_INITIALIZED == "initialized"
M_DIDOPEN == "textDocument/didOpen"
M_DEFINITION == "textDocument/definition"
M_DOCSYMBOL == "textDocument/documentSymbol"
M_CREATE == "window/workDoneProgress/create"
M_DIAGNOSTICS == "textDocument/publishDiagnostics"
M_FILESTATUS == "textDocument/clangd.fileStatus"
M_PROGRESS == "$/progress"

VARIABLES
    alive,          \* proc.poll() is None: the subprocess runs
    spawned,        \* start_clangd_lsp has returned a subprocess to the pass
    terminated,     \* the finally block of _collect_definitions has run
    stream,         \* proc.stdout: frames written by the subprocess, not yet read
    pending,        \* the requests the subprocess has received and not answered
                    \* (cur: the id of the latest request, late: how many
                    \* earlier requests of each id)
    noise,          \* number of unsolicited or malformed frames the subprocess wrote
    pc,             \* the client's position in the pass
    fi,             \* index of the file of file_adds being processed
    ii,             \* index of the identifier of idents_with_pos being processed
    printed,        \* printed_defs: identifier names already recorded
    collected,      \* collected_defs: identifier names with a recorded definition
    printedLocs,    \* printed_locations: definition locations already recorded
    defLoc,         \* loc: the location the definition response gave
    err,            \* an exception is propagating through the finally block
    context,        \* whether self.context has been assigned by this pass
    rd,             \* position inside _read_lsp_response ("idle": no call)
    expected,       \* expected_id of the call
    timeout,        \* timeout of the call
    elapsed,        \* time.time() - start_time of the call
    step,           \* history: what the client's latest step read, wrote and ended
    ready,          \* history: the `initialized` notification has been written
    prevIds,        \* history: ids of the requests written before the latest step
    violated,       \* history: the reader has read a protocol violation
    fatal           \* history: a call raised while an identifier was resolved

\* wait_for_clangd_indexing: its parameters, its locals and its clock
VARIABLES
    wpc,              \* position inside wait_for_clangd_indexing ("idle": no call)
    max_total_wait,
    max_stale_time,
    interval,
    max_interval,
    last_percentage,
    last_value,
    waited,
    current_interval,
    message_read,
    now,              \* time.time() - start_time
    changedAt,        \* history: `now` when last_value took its present value
    stale,            \* history: a backgroundIndexProgress frame was read whose
                      \* value had been last_value for max_stale_time or more
    unacked           \* history: the drain has read a
                      \* window/workDoneProgress/create request and written
                      \* no response to it

\* parse_diff and its caller process_diff_and_print_definitions
VARIABLES
    dpc,              \* position: "idle" no call, "loop" in the for loop of
                      \* parse_diff, "returned" the caller returned at line 1461,
                      \* "collect" the caller called _collect_definitions
    nlines,           \* number of lines of diff_lines the loop has taken
    dline,            \* line: the line the loop took last
    file_adds,
    current_file,
    new_line,
    anyAdded,         \* history: the diff has a line that adds to a file
    hdrSeen,          \* history: a hunk header was parsed since the last
                      \* `+++ b/` line
    wf,               \* history: where the diff read so far stands in the
                      \* unified format ("bad": it is not well formed)
    trueAdds,         \* history: the 0-based new-file lines the diff adds,
    trueFile,         \* the file and
    trueLine          \* the new-file line its next line belongs to

\* _collect_definitions and _process_file_identifiers, with the answers of
\* the session as inputs
VARIABLES
    rpc,              \* position: "idle" no call, "file" at the loop over
                      \* file_adds, "ident" at the loop over idents_with_pos,
                      \* "done"
    rfile,            \* index of the entry of file_adds being processed
    lines,            \* lines: the added lines of that file
    scan,             \* which part of idents_with_pos the loop is in: "added"
                      \* occurrences on added lines, "rest" the others
    occ,              \* number of entries of idents_with_pos the loop has taken
    printed_defs,
    printed_locations,
    collected_defs,
    asked,            \* history: the line of the occurrence the latest step
                      \* sent a definition request for
    skipped,          \* history: the names with a resolution that found a
                      \* definition and appended no record
    symbolsOf,        \* the symbol tree of each file: the result of
                      \* textDocument/documentSymbol for it
    resolved          \* history: the definition the latest step resolved and
                      \* the parent range it recorded with it

\* _merge_and_build_context
VARIABLES
    cpc,              \* position: "idle" no call, "loop" at the loop of
                      \* _get_definition_context, "done" returned
    n_lines,          \* for every file, the number of lines
                      \* _get_file_lines gives (0: unreadable or empty)
    diff_line_numbers,
    todo,             \* the keys of collected_defs the loop has yet to take
    ctx_file,         \* def_file of the latest iteration
    essential_lines,
    print_lines,
    file_context,
    context_parts

\* display_prompt_with_options (src/patchwise/utils/tui.py)
VARIABLES
    tpc,              \* position: "idle" no call, "start", "try" at the try
                      \* statement, "getch" at win.getch(), "returned",
                      \* "raised"
    options,
    key,              \* the key the latest win.getch() returned
    nkeys,            \* number of keys read
    ret,              \* the value returned
    called,           \* how many times each curses function was called
    curses_log        \* history: the curses calls that have returned, in
                      \* their order

\* two calls of parse_diff
VARIABLES
    calls,            \* number of calls of parse_diff made
    diff_lines,       \* diff_lines of the first call, as far as the loop has
                      \* taken it, and of the second call
    first_adds        \* what the first call returned

\* the finally clause of _collect_definitions
VARIABLES
    spc,              \* position: "idle", "poll", "terminate", "wait",
                      \* "except", "cleanup", "returned", "raised"
    exit_after,       \* seconds the subprocess takes to exit once it is
                      \* asked to terminate
    terminate_raises, \* proc.terminate() raises
    kill_raises,      \* proc.kill() raises
    propagating,      \* an exception left the try block
    wasRunning,       \* history: proc.poll() was None at line 1442
    log               \* history: the calls made, in order

\* DockerManager.initialize_shared_build_volume (src/patchwise/docker.py)
VARIABLES
    vpc,              \* position: "idle" no call yet, "start" before a call,
                      \* "create" at create_shared_build_volume, "try",
                      \* "finally", "returned", "raised"
    build_volume_initialized,   \* DockerManager._build_volume_initialized
    container_exists, \* docker has a container named init_container_name
    init_error,       \* an exception left the try block
    init_calls,       \* number of calls made
    entry_flag,       \* history: the flag when the latest call began
    docker_log        \* history: the docker commands the latest call has
                      \* run, in order

\* proc.stderr
VARIABLES
    stderrFull        \* the subprocess has written to its standard error as
                      \* much as the pipe holds and is blocked in the next write

serverVars == <<alive, stream, pending, noise>>
passVars == <<pc, fi, ii, printed, collected, printedLocs, defLoc, err, context,
              spawned, terminated>>
callVars == <<rd, expected, timeout, elapsed>>
indexVars == <<wpc, max_total_wait, max_stale_time, interval, max_interval,
               last_percentage, last_value, waited, current_interval,
               message_read, now, changedAt, stale, unacked>>
diffVars == <<dpc, nlines, dline, file_adds, current_file, new_line, anyAdded,
              hdrSeen, wf, trueAdds, trueFile, trueLine>>
resolveVars == <<rpc, rfile, lines, scan, occ, printed_defs, printed_locations,
                 collected_defs, asked, skipped, symbolsOf, resolved>>
contextVars == <<cpc, n_lines, diff_line_numbers, todo, ctx_file,
                 essential_lines, print_lines, file_context, context_parts>>
tuiVars == <<tpc, options, key, nkeys, ret, called, curses_log>>
\* The state of the functions the pass does not call.
twiceVars == <<calls, diff_lines, first_adds>>
shutdownVars == <<spc, exit_after, terminate_raises, kill_raises, propagating,
                  wasRunning, log>>
volumeVars == <<vpc, build_volume_initialized, container_exists, init_error,
                init_calls, entry_flag, docker_log>>
idleVars == <<indexVars, diffVars, resolveVars, contextVars, tuiVars,
              twiceVars, shutdownVars, volumeVars>>
\* What the finally clause leaves alone besides the subprocess.
notShutdownVars == <<stream, pending, noise, passVars, callVars, step, ready,
                     prevIds, violated, fatal, stderrFull, indexVars, diffVars,
                     resolveVars, contextVars, tuiVars, twiceVars,
                     volumeVars>>
\* What initialize_shared_build_volume leaves alone.
notVolumeVars == <<serverVars, passVars, callVars, step, ready, prevIds,
                   violated, fatal, stderrFull, indexVars, diffVars,
                   resolveVars, contextVars, tuiVars, twiceVars, shutdownVars>>
\* What the pass leaves alone: that, and the standard error of the
\* subprocess, which it reads only at end of file.
otherVars == <<idleVars, stderrFull>>
\* What wait_for_clangd_indexing leaves alone besides the pipe.
notIndexVars == <<pending, noise, passVars, callVars, step, ready, prevIds,
                  violated, fatal, stderrFull, diffVars, resolveVars, contextVars,
                  tuiVars, twiceVars, shutdownVars, volumeVars>>
\* What parse_diff and its caller leave alone.
notDiffVars == <<serverVars, passVars, callVars, step, ready, prevIds, violated,
                 fatal, stderrFull, indexVars, resolveVars, contextVars,
                 tuiVars, twiceVars, shutdownVars, volumeVars>>
\* What two calls of parse_diff leave alone.
notTwiceVars == <<serverVars, passVars, callVars, step, ready, prevIds,
                  violated, fatal, stderrFull, indexVars, resolveVars,
                  contextVars, tuiVars, shutdownVars, volumeVars>>
\* What the loops over files and identifiers leave alone.
notResolveVars == <<serverVars, passVars, callVars, step, ready, prevIds,
                    violated, fatal, stderrFull, indexVars, diffVars,
                    contextVars, tuiVars, twiceVars, shutdownVars, volumeVars>>
\* What _merge_and_build_context leaves alone.
notContextVars == <<serverVars, passVars, callVars, step, ready, prevIds,
                    violated, fatal, stderrFull, indexVars, diffVars,
                    resolveVars, tuiVars, twiceVars, shutdownVars, volumeVars>>
\* What display_prompt_with_options leaves alone.
notTuiVars == <<serverVars, passVars, callVars, step, ready, prevIds,
                violated, fatal, stderrFull, indexVars, diffVars, resolveVars,
                contextVars, twiceVars, shutdownVars, volumeVars>>
vars == <<alive, spawned, terminated, stream, pending, noise, pc, fi, ii,
          printed, collected, printedLocs, defLoc, err, context, rd, expected,
          timeout, elapsed, step, ready, prevIds, violated, fatal, otherVars>>

\* ---------------------------------------------------------- messages
\* A message the client writes: method "" and result TRUE for a response.
create_lsp_message(method, msg_id) ==
    [method |-> method, id |-> msg_id, result |-> FALSE]

workDoneProgress_response ==
    [method |-> "", id |-> ACK_ID, result |-> TRUE]

IsRequest(m) == m.method # "" /\ m.id # NoId

RequestsOf(msgs) == {k \in 1..Len(msgs) : IsRequest(msgs[k])}

\* ------------------------------------------------------------ frames
\* What the subprocess writes.  shape: "ok" Content-Length header and a JSON
\* body of that length; "raw" a JSON object starting with {"jsonrpc" and no
\* header; "nolen" a header block with no Content-Length (or length 0) and no
\* body; "badlen" Content-Length that is not a number; "badjson" a body of
\* the declared length that is not JSON; "short" a header and fewer body
\* bytes than declared; "parthdr" a header that stops before its separator.
\* re: 0 the frame answers no request, 1 it answers the latest request the
\* client has written, 2 it answers an earlier request of the session;
\* res: the result of a definition response (0: no result, else a location).
Frame(shape, id, method, re, res) ==
    [shape |-> shape, id |-> id, method |-> method, re |-> re, res |-> res]

ResponseShapes == {"ok", "raw"}

\* The frames the subprocess may write unasked while the client waits for
\* the id `awaited`.
NoiseFrames(awaited) ==
    {Frame("ok", NoId, m, 0, 0) : m \in {M_PROGRESS, M_DIAGNOSTICS}}
    \cup {Frame(s, i, M_CREATE, 0, 0) :
            s \in ResponseShapes, i \in {ACK_ID, awaited}}
    \cup {Frame("raw", NoId, M_PROGRESS, 0, 0)}
    \cup {Frame(s, NoId, "", 0, 0) :
            s \in {"nolen", "badlen", "badjson", "short", "parthdr"}}

Results(id) ==
    IF id = DEFINITION_MSG_ID THEN 0..NumLocs ELSE {0}

\* -------------------------------------------------------- diff lines
\* A line of the diff: `role` is what the line is in the unified format,
\* `text` its first characters, `path` what line[6:].strip() names (a file of
\* the diff, for a `+++ b/` line), `start` group 2 of the hunk-header pattern
\* of line 683 when the pattern matches the line.
DiffLine(role, text, path, start) ==
    [role |-> role, text |-> text, path |-> path, start |-> start]

NoDiffLine == DiffLine("", <<>>, NoFile, NoMatch)

\* The text of an added, removed or context line.
Contents == {<<"x">>, <<"+", "+", "x">>}

BodyMark(role) ==
    CASE role = "add" -> "+"
      [] role = "remove" -> "-"
      [] role = "context" -> " "

DiffLines ==
    {DiffLine("meta", <<"d", "i", "f", "f", " ", "-">>, NoFile, NoMatch),
     DiffLine("old", <<"-", "-", "-", " ", "a", "/">>, NoFile, NoMatch),
     DiffLine("devnull", <<"+", "+", "+", " ", "/", "d">>, NoFile, NoMatch),
     DiffLine("badhunk", <<"@", "@", "@", " ", "-">>, NoFile, NoMatch),
     DiffLine("nonewline", <<"\\", " ", "N", "o">>, NoFile, NoMatch)}
    \cup {DiffLine("new", <<"+", "+", "+", " ", "b", "/">>, f, NoMatch) :
            f \in 1..NumFiles}
    \cup {DiffLine("hunk", <<"@", "@", " ", "-">>, NoFile, c) :
            c \in {0, 1, MaxStart}}
    \cup {DiffLine(r, <<BodyMark(r)>> \o c, NoFile, NoMatch) :
            r \in {"add", "remove", "context"}, c \in Contents}

\* str.startswith
StartsWith(text, prefix) ==
    /\ Len(text) >= Len(prefix)
    /\ SubSeq(text, 1, Len(prefix)) = prefix

\* A dict with no key; d[k] = v
EmptyDict == [k \in {} |-> {}]

DictSet(d, k, v) == [x \in DOMAIN d \cup {k} |-> IF x = k THEN v ELSE d[x]]

\* ------------------------------------------------------- identifiers
\* Identifier names, as sequences of pieces of text.  IDENTIFIER_PATTERN
\* matches any C identifier, one that begins with parent_of_ included.
Names == {<<"x">>, <<"y">>, <<"parent_of_", "x">>}

\* The 0-based line numbers of a diff file.
Lnums == {0, 1}

\* (start line, end line) of a definition or of a symbol
Ranges == {<<0, 0>>, <<1, 1>>}

\* parent_range = None
NoRange == <<NoLine, NoLine>>

\* The files a definition may lie in.
DefFiles == {1, 2}

\* The files with a symbol tree: those, and the files of the diff.
SymbolFiles == DefFiles \cup (1..NumFiles)

\* A node of a symbol tree (a DocumentSymbol): name, range, children.
Node(name, range, children) ==
    [name |-> name, range |-> range, children |-> children]

\* Symbol trees: no symbol, x at the top level, y and x inside a symbol P
\* (as two members of a struct).
Trees ==
    {<<>>,
     <<Node(<<"x">>, <<1, 1>>, <<>>)>>,
     <<Node(<<"P">>, <<0, 1>>, <<Node(<<"y">>, <<0, 0>>, <<>>),
                                 Node(<<"x">>, <<1, 1>>, <<>>)>>)>>}

\* No definition resolved.
NoResolved ==
    [file |-> NoFile, start |-> NoLine, ident |-> <<>>, parent |-> NoRange]

\* ------------------------------------------------------- the subprocess
\* After a partial frame the subprocess writes nothing more.
ServerStuck == rd \in {"hdr", "body"}

Running == pc \notin {"start", "done", "raised"}

TimedOut == elapsed > timeout

\* The client is blocked in a read or in select.  What the subprocess writes
\* while the client runs is seen by the client only at its next read, so the
\* model lets the subprocess write only while the client waits.
Waiting == rd # "idle" \/ pc = "init_select"

RequestIds == {INIT_MSG_ID, DEFINITION_MSG_ID, SYMBOL_MSG_ID, DOC_SYMBOL_MSG_ID}

NoRequests == [cur |-> NoId, late |-> [i \in RequestIds |-> 0]]

\* The requests the subprocess holds after it received the request m: an
\* unanswered request that was the latest one becomes an earlier one.
ReceiveOne(held, m) ==
    [cur |-> m.id,
     late |-> IF held.cur = NoId THEN held.late
              ELSE [held.late EXCEPT ![held.cur] = @ + 1]]

RECURSIVE Receive(_, _)
Receive(held, msgs) ==
    IF msgs = <<>> THEN held
    ELSE Receive(IF IsRequest(Head(msgs)) THEN ReceiveOne(held, Head(msgs))
                 ELSE held,
                 Tail(msgs))

\* The subprocess answers a request it holds, once, at any later time: the
\* latest request or an earlier one.  A header-less answer counts as a
\* malformed frame.
ServerRespond ==
    /\ alive /\ Waiting /\ ~ServerStuck /\ stream = <<>> /\ ~TimedOut
    /\ ~stderrFull
    /\ \E shape \in ResponseShapes :
         /\ shape # "ok" => noise < MaxNoise
         /\ noise' = IF shape = "ok" THEN noise ELSE noise + 1
         /\ \/ /\ pending.cur # NoId
               /\ \E res \in Results(pending.cur) :
                    stream' = Append(stream,
                                     Frame(shape, pending.cur, "", 1, res))
               /\ pending' = [pending EXCEPT !.cur = NoId]
            \/ \E i \in RequestIds :
                 /\ pending.late[i] > 0
                 /\ \E res \in Results(i) :
                      stream' = Append(stream, Frame(shape, i, "", 2, res))
                 /\ pending' = [pending EXCEPT !.late[i] = @ - 1]
    /\ UNCHANGED alive
    /\ UNCHANGED <<passVars, callVars, step, ready, prevIds, violated, fatal,
                   otherVars>>

\* A notification, a request of its own, or a malformed frame.  The id of
\* a request of the subprocess comes from the subprocess's own numbering: it
\* is the id the client waits for, or another one (0).
ServerNoise ==
    /\ alive /\ Waiting /\ ~ServerStuck /\ stream = <<>> /\ ~TimedOut
    /\ ~stderrFull
    /\ noise < MaxNoise
    /\ \E f \in NoiseFrames(IF rd = "idle" THEN INIT_MSG_ID ELSE expected) :
         stream' = Append(stream, f)
    /\ noise' = noise + 1
    /\ UNCHANGED <<alive, pending>>
    /\ UNCHANGED <<passVars, callVars, step, ready, prevIds, violated, fatal,
                   otherVars>>

\* The subprocess exits.
ServerDie ==
    /\ alive /\ Running /\ stream = <<>>
    /\ alive' = FALSE
    /\ UNCHANGED <<stream, pending, noise>>
    /\ UNCHANGED <<passVars, callVars, step, ready, prevIds, violated, fatal,
                   otherVars>>

\* DockerManager.start_clangd_lsp gives the subprocess a pipe as standard
\* error (stderr=subprocess.PIPE) and nothing reads it while the subprocess
\* runs: the subprocess logs until the pipe is full, and its next write
\* blocks.
ServerLog ==
    /\ alive /\ Waiting /\ ~ServerStuck /\ stream = <<>> /\ ~TimedOut
    /\ ~stderrFull
    /\ stderrFull' = TRUE
    /\ UNCHANGED <<serverVars, passVars, callVars, step, ready, prevIds,
                   violated, fatal, idleVars>>

\* The deadline of the wait passes while the client has nothing to read.
Tick ==
    /\ Waiting /\ stream = <<>>
    /\ elapsed <= timeout
    /\ elapsed' = timeout + 1
    /\ UNCHANGED <<rd, expected, timeout>>
    /\ UNCHANGED <<serverVars, passVars, step, ready, prevIds, violated, fatal,
                   otherVars>>

\* ------------------------------------------------ _read_lsp_response
\* Line 414 (and line 375 for a header-less frame): the frame is the one the
\* call returns.
\* IsExpected with the comparison weakened to "the frame has an id".
IsExpectedAnyId(msg, expected_id) ==
    expected_id = NoId \/ msg.id # NoId

IsExpected(msg, expected_id) ==
    expected_id = NoId \/ msg.id = expected_id

\* Lines 414-444: what the loop does with a parsed, well-framed message.
Dispatch(msg, expected_id) ==
    IF IsExpected(msg, expected_id) THEN "return"
    ELSE IF msg.method = M_CREATE THEN "ack"
    ELSE "skip"

\* Lines 320-444, for the frame f at the head of the pipe: `next` is where the
\* loop goes ("return", "raise", or the position it continues at), `ack`
\* whether send_workDoneProgress_response is called, `viol` whether the frame
\* is a protocol violation.
read_frame(f, expected_id) ==
    CASE f.shape = "ok" ->
           LET d == Dispatch(f, expected_id) IN
           [next |-> IF d = "return" THEN "return" ELSE "poll",
            ack |-> d = "ack", viol |-> FALSE]
      [] f.shape = "raw" ->
           [next |-> IF IsExpected(f, expected_id) THEN "return" ELSE "junk",
            ack |-> FALSE, viol |-> TRUE]
      [] f.shape = "nolen" ->
           [next |-> "poll", ack |-> FALSE, viol |-> TRUE]
      [] f.shape = "badlen" ->
           [next |-> "raise", ack |-> FALSE, viol |-> TRUE]
      [] f.shape = "badjson" ->
           [next |-> "raise", ack |-> FALSE, viol |-> TRUE]
      [] f.shape = "short" ->
           [next |-> "body", ack |-> FALSE, viol |-> FALSE]
      [] f.shape = "parthdr" ->
           [next |-> "hdr", ack |-> FALSE, viol |-> FALSE]

\* json.loads succeeded on the frame: the reader has a message.
Parsed(f) == f.shape \in {"ok", "raw"}

\* ----------------------------------------- the pass, between two reads
IdentName(i) == i

\* What a step of the client read (<<>> or <<frame>>), wrote and how the
\* call it was in ended ("", "returned", "raised"); the subprocess receives
\* what was written.
Record(readf, msgs, out) ==
    /\ step' = [read |-> readf, wrote |-> msgs, outcome |-> out,
                expected |-> expected]
    /\ prevIds' = prevIds \cup {step.wrote[k].id : k \in RequestsOf(step.wrote)}
    /\ pending' = Receive(pending, msgs)
    /\ ready' = (ready \/ \E k \in 1..Len(msgs) : msgs[k].method = M_INITIALIZED)
    /\ UNCHANGED otherVars

StartCall(id, t) ==
    /\ rd' = "poll"
    /\ expected' = id
    /\ timeout' = t
    /\ elapsed' = 0

\* The call is over: its locals are gone.
EndCall ==
    /\ rd' = "idle"
    /\ expected' = NoId
    /\ timeout' = 0
    /\ elapsed' = 0

\* Line 1136 on: the loop goes to the next identifier.
NextIdentifier ==
    /\ pc' = "ident"
    /\ ii' = ii + 1
    /\ defLoc' = 0
    /\ UNCHANGED <<fi, err, context, spawned, terminated>>

\* Lines 1259-1264: the except clause of the identifier loop.
SwallowError ==
    /\ NextIdentifier
    /\ fatal' = TRUE
    /\ UNCHANGED <<printed, collected, printedLocs>>

\* Lines 1159-1220: the `continue` of an identifier without a usable
\* definition, with the name recorded as if it had been resolved.
MissMarksSeen ==
    /\ NextIdentifier
    /\ printed' = printed \cup {IdentName(ii)}
    /\ UNCHANGED <<collected, printedLocs, fatal>>

\* Lines 1159-1220: the response has no result (line 1159), or the
\* definition file is not on disk (lines 1188-1212) or gives no contents
\* (lines 1214-1220): `continue`, with nothing recorded.
Miss ==
    /\ NextIdentifier
    /\ UNCHANGED <<printed, collected, printedLocs, fatal>>

\* The call raised.
AfterRaise(readf) ==
    /\ EndCall
    /\ Record(readf, <<>>, "raised")
    /\ CASE pc = "init_read" ->
              \* caught by the except clause of _initialize_lsp (line 535)
              /\ pc' = "init_except"
              /\ UNCHANGED <<fi, ii, printed, collected, printedLocs, defLoc,
                             err, context, spawned, terminated, fatal>>
         [] pc = "docsym_read" ->
              \* line 1092 is outside the try of the identifier loop
              /\ pc' = "finally"
              /\ err' = TRUE
              /\ UNCHANGED <<fi, ii, printed, collected, printedLocs, defLoc,
                             context, spawned, terminated, fatal>>
         [] pc \in {"def_read", "sym_read"} ->
              SwallowError

\* The call returned frame f.
AfterReturn(f) ==
    CASE pc = "init_read" ->
           \* lines 529-531; _collect_definitions enters the file loop
           /\ EndCall
           /\ Record(<<f>>, <<create_lsp_message(M_INITIALIZED, NoId)>>, "returned")
           /\ pc' = "file"
           /\ fi' = 1
           /\ UNCHANGED <<ii, printed, collected, printedLocs, defLoc, err,
                          context, spawned, terminated, fatal>>
      [] pc = "docsym_read" ->
           \* lines 1093-1136
           /\ EndCall
           /\ Record(<<f>>, <<>>, "returned")
           /\ pc' = "ident"
           /\ ii' = 1
           /\ UNCHANGED <<fi, printed, collected, printedLocs, defLoc, err,
                          context, spawned, terminated, fatal>>
      [] pc = "def_read" ->
           \* lines 1153-1224
           \/ /\ f.res = 0
              /\ EndCall
              /\ Record(<<f>>, <<>>, "returned")
              /\ Miss
           \/ /\ f.res # 0
              /\ \E readable \in BOOLEAN :
                   IF readable
                   THEN /\ StartCall(SYMBOL_MSG_ID, READ_TIMEOUT)
                        /\ Record(<<f>>,
                             <<create_lsp_message(M_DIDOPEN, NoId),
                               create_lsp_message(M_DOCSYMBOL, SYMBOL_MSG_ID)>>,
                             "returned")
                        /\ pc' = "sym_read"
                        /\ defLoc' = f.res
                        /\ UNCHANGED <<fi, ii, err, context, spawned, terminated,
                                       printed, collected, printedLocs, fatal>>
                   ELSE /\ EndCall
                        /\ Record(<<f>>, <<>>, "returned")
                        /\ Miss
      [] pc = "sym_read" ->
           \* lines 1226-1252
           /\ EndCall
           /\ Record(<<f>>, <<>>, "returned")
           /\ NextIdentifier
           /\ IF defLoc \in printedLocs
              THEN UNCHANGED <<printed, collected, printedLocs>>
              ELSE /\ printed' = printed \cup {IdentName(ii)}
                   /\ collected' = collected \cup {IdentName(ii)}
                   /\ printedLocs' = printedLocs \cup {defLoc}
           /\ UNCHANGED fatal

\* -------------------------------------- the steps of _read_lsp_response
\* What a reading step does besides consuming the frame: go on inside the
\* call, return or raise.
Outcome(f, r) ==
    CASE r.next = "return" -> AfterReturn(f)
      [] r.next = "raise" -> AfterRaise(<<f>>)
      [] OTHER ->
           /\ rd' = r.next
           /\ Record(<<f>>,
                IF r.ack THEN <<workDoneProgress_response>> ELSE <<>>, "")
           /\ UNCHANGED <<expected, timeout, elapsed, passVars, fatal>>

\* ReadDied without the test of line 298: the loop goes on to the header.
ReadDiedUnnoticed ==
    /\ rd = "poll" /\ ~alive
    /\ rd' = "hdr"
    /\ Record(<<>>, <<>>, "")
    /\ UNCHANGED <<alive, stream, noise, violated, expected, timeout, elapsed,
                   passVars, fatal>>

\* Lines 298-306: the subprocess has exited when the loop looks.
ReadDied ==
    /\ rd = "poll" /\ ~alive
    /\ AfterRaise(<<>>)
    /\ UNCHANGED <<alive, stream, noise, violated>>

\* Lines 309-312.
ReadTimeout ==
    /\ rd = "poll" /\ alive /\ TimedOut
    /\ AfterRaise(<<>>)
    /\ UNCHANGED <<alive, stream, noise, violated>>

\* Lines 315-444: select says there is data; the frame at the head of the
\* pipe is read and handled.
ReadFrame ==
    /\ rd = "poll" /\ alive /\ ~TimedOut
    /\ stream # <<>>
    /\ LET f == Head(stream)
           r == read_frame(f, expected) IN
       /\ stream' = Tail(stream)
       /\ violated' = (violated \/ r.viol)
       /\ Outcome(f, r)
    /\ UNCHANGED <<alive, noise>>

\* Lines 325-338 and 382-389: read(1) blocks while the subprocess lives and
\* the header is incomplete; at end of file the "process died" error is
\* caught by the except clause, which raises only once the timeout is over.
ReadHeaderEof ==
    /\ rd = "hdr" /\ ~alive /\ TimedOut
    /\ AfterRaise(<<>>)
    /\ UNCHANGED <<alive, stream, noise, violated>>

\* Lines 402-406: read(content_length) blocks until the bytes are there or
\* the pipe is at end of file.
ReadBodyEof ==
    /\ rd = "body" /\ ~alive
    /\ AfterRaise(<<>>)
    /\ violated' = TRUE
    /\ UNCHANGED <<alive, stream, noise>>

\* Lines 351-377 after the `continue` of line 377: headers still starts with
\* {"jsonrpc", so every further byte is appended to content until the braces
\* balance, which a sequence of whole frames never does: the frames are eaten.
ReadJunk ==
    /\ rd = "junk"
    /\ stream # <<>>
    /\ stream' = Tail(stream)
    /\ Record(<<>>, <<>>, "")
    /\ UNCHANGED <<alive, noise, passVars, callVars, violated, fatal>>

\* Lines 362-363, 378-389: at end of file json.loads fails, the error is
\* caught, and the loop raises once the timeout is over.
ReadJunkEof ==
    /\ rd = "junk" /\ stream = <<>> /\ ~alive /\ TimedOut
    /\ AfterRaise(<<>>)
    /\ UNCHANGED <<alive, stream, noise, violated>>

read_lsp_response ==
    \/ ReadDied
    \/ ReadTimeout
    \/ ReadFrame
    \/ ReadHeaderEof
    \/ ReadBodyEof
    \/ ReadJunk
    \/ ReadJunkEof

\* ------------------------------------------------ the steps of the pass
\* DockerManager.start_clangd_lsp: the subprocess is started; if it has
\* exited after one second the call raises and no subprocess is left.
start_clangd_lsp ==
    /\ pc = "start"
    /\ \E up \in BOOLEAN :
         /\ alive' = up
         /\ spawned' = up
         /\ pc' = IF up THEN "init_send" ELSE "raised"
    /\ Record(<<>>, <<>>, "")
    /\ UNCHANGED <<stream, noise, fi, ii, printed, collected, printedLocs,
                   defLoc, err, context, terminated, callVars, violated, fatal>>

\* _initialize_lsp, lines 462-500: the initialize request is written, then
\* select waits up to two seconds for the first byte.
initialize_lsp_send ==
    /\ pc = "init_send"
    /\ IF alive
       THEN /\ Record(<<>>, <<create_lsp_message(M_INITIALIZE, INIT_MSG_ID)>>, "")
            /\ pc' = "init_select"
            /\ timeout' = INIT_SELECT_WAIT
            /\ elapsed' = 0
       ELSE \* line 462, before the try: the error leaves the pass
            /\ Record(<<>>, <<>>, "")
            /\ pc' = "raised"
            /\ UNCHANGED <<timeout, elapsed>>
    /\ UNCHANGED <<alive, stream, noise, fi, ii, printed, collected, printedLocs,
                   defLoc, err, context, spawned, terminated, rd, expected,
                   violated, fatal>>

\* _initialize_lsp, lines 500-524: select is ready when the pipe has data or
\* is at end of file; otherwise the handshake fails after the wait.
initialize_lsp_select ==
    /\ pc = "init_select"
    /\ \/ /\ stream # <<>> \/ ~alive
          /\ StartCall(INIT_MSG_ID, INIT_TIMEOUT)
          /\ pc' = "init_read"
       \/ /\ stream = <<>> /\ alive
          /\ elapsed >= INIT_SELECT_WAIT
          /\ pc' = "init_except"
          /\ UNCHANGED callVars
    /\ Record(<<>>, <<>>, "")
    /\ UNCHANGED <<alive, stream, noise, fi, ii, printed, collected, printedLocs,
                   defLoc, err, context, spawned, terminated, violated, fatal>>

\* _initialize_lsp, lines 535-548: the except clause reads the subprocess's
\* stderr to end of file, which blocks while the subprocess runs, and raises
\* again; _setup_lsp_client and _collect_definitions (line 1420, before the
\* try) let the error pass.
initialize_lsp_except ==
    /\ pc = "init_except"
    /\ ~alive
    /\ pc' = "raised"
    /\ Record(<<>>, <<>>, "")
    /\ UNCHANGED <<alive, stream, noise, fi, ii, printed, collected, printedLocs,
                   defLoc, err, context, spawned, terminated, callVars,
                   violated, fatal>>

\* _collect_definitions, lines 1428-1438, and _process_file_identifiers,
\* lines 1051-1092: the next file is opened and its symbols are requested.
process_file_identifiers ==
    /\ pc = "file"
    /\ IF fi > NumFiles
       THEN /\ pc' = "finally"
            /\ Record(<<>>, <<>>, "")
            /\ UNCHANGED <<fi, err, callVars>>
       ELSE \E readable \in BOOLEAN :
            CASE ~readable ->
                   /\ fi' = fi + 1
                   /\ Record(<<>>, <<>>, "")
                   /\ UNCHANGED <<pc, err, callVars>>
              [] readable /\ ~alive ->
                   \* the write of line 1061 fails: it is outside the try
                   /\ pc' = "finally"
                   /\ err' = TRUE
                   /\ Record(<<>>, <<>>, "")
                   /\ UNCHANGED <<fi, callVars>>
              [] readable /\ alive ->
                   /\ Record(<<>>,
                        <<create_lsp_message(M_DIDOPEN, NoId),
                          create_lsp_message(M_DOCSYMBOL, DOC_SYMBOL_MSG_ID)>>,
                        "")
                   /\ StartCall(DOC_SYMBOL_MSG_ID, READ_TIMEOUT)
                   /\ pc' = "docsym_read"
                   /\ UNCHANGED <<fi, err>>
    /\ UNCHANGED <<alive, stream, noise, ii, printed, collected, printedLocs,
                   defLoc, context, spawned, terminated, violated, fatal>>

\* _process_file_identifiers, lines 1136-1153, and _find_definition: the
\* next identifier not yet recorded gets a definition request.
find_definition ==
    /\ pc = "ident"
    /\ CASE ii > NumIdents ->
              /\ pc' = "file"
              /\ fi' = fi + 1
              /\ Record(<<>>, <<>>, "")
              /\ UNCHANGED <<ii, callVars, fatal, err, context, defLoc,
                             spawned, terminated>>
         [] ii <= NumIdents /\ IdentName(ii) \in printed ->
              /\ NextIdentifier
              /\ Record(<<>>, <<>>, "")
              /\ UNCHANGED <<callVars, fatal>>
         [] ii <= NumIdents /\ IdentName(ii) \notin printed /\ ~alive ->
              \* the write fails inside the try
              /\ SwallowError
              /\ Record(<<>>, <<>>, "raised")
              /\ UNCHANGED callVars
         [] ii <= NumIdents /\ IdentName(ii) \notin printed /\ alive ->
              /\ Record(<<>>,
                   <<create_lsp_message(M_DEFINITION, DEFINITION_MSG_ID)>>, "")
              /\ StartCall(DEFINITION_MSG_ID, READ_TIMEOUT)
              /\ pc' = "def_read"
              /\ UNCHANGED <<fi, ii, err, context, fatal, defLoc, spawned,
                             terminated>>
    /\ UNCHANGED <<alive, stream, noise, printed, collected, printedLocs,
                   violated>>

\* _collect_definitions, lines 1440-1454, then
\* process_diff_and_print_definitions, line 1464.
collect_definitions_finally ==
    /\ pc = "finally"
    /\ alive' = FALSE
    /\ terminated' = TRUE
    /\ IF err
       THEN pc' = "raised" /\ UNCHANGED context
       ELSE pc' = "done" /\ context' = TRUE
    /\ Record(<<>>, <<>>, "")
    /\ UNCHANGED <<stream, noise, fi, ii, printed, collected, printedLocs,
                   defLoc, err, spawned, callVars, violated, fatal>>

NoStep == [read |-> <<>>, wrote |-> <<>>, outcome |-> "", expected |-> NoId]

\* The pass has not begun.
PassInit ==
    /\ spawned = FALSE
    /\ terminated = FALSE
    /\ stream = <<>>
    /\ pending = NoRequests
    /\ noise = 0
    /\ pc = "start"
    /\ fi = 0
    /\ ii = 0
    /\ printed = {}
    /\ collected = {}
    /\ printedLocs = {}
    /\ defLoc = 0
    /\ err = FALSE
    /\ context = FALSE
    /\ rd = "idle"
    /\ expected = NoId
    /\ timeout = 0
    /\ elapsed = 0
    /\ step = NoStep
    /\ ready = FALSE
    /\ prevIds = {}
    /\ violated = FALSE
    /\ fatal = FALSE

\* No call of wait_for_clangd_indexing is under way.
IndexIdle ==
    /\ wpc = "idle"
    /\ max_total_wait = 0
    /\ max_stale_time = 0
    /\ interval = 0
    /\ max_interval = 0
    /\ last_percentage = NoPct
    /\ last_value = NoValue
    /\ waited = 0
    /\ current_interval = 0
    /\ message_read = FALSE
    /\ now = 0
    /\ changedAt = 0
    /\ stale = FALSE
    /\ unacked = FALSE

\* No call of parse_diff is under way.
DiffAtRest ==
    /\ dpc = "idle"
    /\ nlines = 0
    /\ dline = NoDiffLine
    /\ current_file = NoFile
    /\ new_line = NoLine
    /\ anyAdded = FALSE
    /\ hdrSeen = FALSE
    /\ wf = "top"
    /\ trueAdds = EmptyDict
    /\ trueFile = NoFile
    /\ trueLine = NoLine

DiffIdle ==
    /\ DiffAtRest
    /\ file_adds = EmptyDict

\* The loops over files and identifiers are not under way.
ResolveAtRest ==
    /\ rpc = "idle"
    /\ rfile = 0
    /\ lines = {}
    /\ scan = "added"
    /\ occ = 0
    /\ printed_defs = {}
    /\ printed_locations = {}
    /\ asked = NoLine
    /\ skipped = {}
    /\ symbolsOf = [f \in SymbolFiles |-> <<>>]
    /\ resolved = NoResolved

ResolveIdle ==
    /\ ResolveAtRest
    /\ collected_defs = EmptyDict

\* No call of _merge_and_build_context is under way.
ContextIdle ==
    /\ cpc = "idle"
    /\ n_lines = [f \in DefFiles |-> 0]
    /\ diff_line_numbers = EmptyDict
    /\ todo = <<>>
    /\ ctx_file = NoFile
    /\ essential_lines = {}
    /\ print_lines = {}
    /\ file_context = <<>>
    /\ context_parts = <<>>

\* A key that has not been read; a value that has not been returned.
NoKey == -1

NoRet == <<0>>

\* The curses functions the call counts.
Curses == {"initscr", "noecho", "cbreak", "clear", "box", "refresh", "endwin"}

\* No call of display_prompt_with_options is under way.
TuiIdle ==
    /\ tpc = "idle"
    /\ options = <<>>
    /\ key = NoKey
    /\ nkeys = 0
    /\ ret = NoRet
    /\ called = [c \in Curses |-> 0]
    /\ curses_log = <<>>

\* initialize_shared_build_volume has not been called.
VolumeIdle ==
    /\ vpc = "idle"
    /\ build_volume_initialized = FALSE
    /\ container_exists = FALSE
    /\ init_error = FALSE
    /\ init_calls = 0
    /\ entry_flag = FALSE
    /\ docker_log = <<>>

\* The finally clause is not under way.
ShutdownIdle ==
    /\ spc = "idle"
    /\ exit_after = 0
    /\ terminate_raises = FALSE
    /\ kill_raises = FALSE
    /\ propagating = FALSE
    /\ wasRunning = FALSE
    /\ log = <<>>

\* parse_diff has not been called.
TwiceIdle ==
    /\ calls = 0
    /\ diff_lines = <<>>
    /\ first_adds = EmptyDict

Init ==
    /\ alive = FALSE
    /\ stderrFull = FALSE
    /\ PassInit
    /\ IndexIdle
    /\ DiffIdle
    /\ ResolveIdle
    /\ ContextIdle
    /\ TuiIdle
    /\ TwiceIdle
    /\ ShutdownIdle
    /\ VolumeIdle

Next ==
    \/ start_clangd_lsp
    \/ initialize_lsp_send
    \/ initialize_lsp_select
    \/ initialize_lsp_except
    \/ process_file_identifiers
    \/ find_definition
    \/ collect_definitions_finally
    \/ read_lsp_response
    \/ ServerRespond
    \/ ServerNoise
    \/ ServerDie
    \/ Tick

Spec == Init /\ [][Next]_vars

\* The steps of the client, which is one thread: it runs whenever it is not
\* blocked in a system call.
ClientNext ==
    \/ start_clangd_lsp
    \/ initialize_lsp_send
    \/ initialize_lsp_select
    \/ initialize_lsp_except
    \/ process_file_identifiers
    \/ find_definition
    \/ collect_definitions_finally
    \/ read_lsp_response

\* The client runs and time passes; nothing is assumed of the subprocess.
FairSpec == Spec /\ WF_vars(ClientNext) /\ WF_vars(Tick)

\* The pass with a subprocess that also writes to its standard error.  To
\* the client a subprocess blocked in such a write is one that writes
\* nothing more to its standard output, which Spec already allows; LogSpec
\* tells the two apart.
LogNext ==
    \/ Next
    \/ ServerLog

LogSpec == Init /\ [][LogNext]_vars

\* ------------------------------------------ wait_for_clangd_indexing
\* A call of wait_for_clangd_indexing(proc, max_total_wait, max_stale_time,
\* interval, max_interval) on a running session.  The subprocess writes
\* whole frames; a read of a frame that is in the pipe takes no time or one
\* second, a sleep takes its argument.  Once `now` has reached
\* max_total_wait the code no longer distinguishes later times, and `now`
\* stays there; `waited`, which the code only ever adds to, stops at MaxTime.
Min(a, b) == IF a < b THEN a ELSE b

\* params.get("value") of a backgroundIndexProgress notification: a dict with
\* or without a percentage.
Values ==
    [percentage : {NoPct, PCT_HALF, PCT_DONE}, message : 1..NumMessages]

IndexFrame(shape, method, token, value) ==
    [shape |-> shape, id |-> NoId, method |-> method, re |-> 0, res |-> 0,
     token |-> token, value |-> value]

\* What the subprocess may write during the wait: progress notifications of
\* the background index and of another token, diagnostics, and a frame whose
\* body is not JSON.
IndexFrames ==
    {IndexFrame("ok", M_PROGRESS, TOKEN_INDEX, v) : v \in Values}
    \cup {IndexFrame("ok", M_PROGRESS, TOKEN_OTHER, NoValue),
          IndexFrame("ok", M_DIAGNOSTICS, "", NoValue),
          IndexFrame("badjson", "", "", NoValue)}

Indexing == wpc \notin {"idle", "returned"}

ClangdSend ==
    /\ Indexing /\ alive /\ stream = <<>>
    /\ \E f \in IndexFrames : stream' = <<f>>
    /\ UNCHANGED <<alive, notIndexVars, indexVars>>

ClangdDie ==
    /\ Indexing /\ alive
    /\ alive' = FALSE
    /\ UNCHANGED <<stream, notIndexVars, indexVars>>

\* Line 418: the message is a window/workDoneProgress/create request.
IsCreate(msg) == Parsed(msg) /\ msg.method = M_CREATE

\* Lines 1339-1344: the message carries a percentage of the background index.
IsIndexProgress(msg) ==
    /\ msg.method = M_PROGRESS
    /\ msg.token = TOKEN_INDEX
    /\ msg.value.percentage # NoPct

\* Line 1349 comparing the percentages only.
NoProgressByPercentage(msg) ==
    last_percentage = msg.value.percentage

\* Line 1349: the value is the one seen last.
NoProgress(msg) ==
    last_percentage = msg.value.percentage /\ last_value = msg.value

\* Line 1352: the function gives up.
GivesUp == current_interval >= max_stale_time

\* Line 1323 and lines 1385-1388: the test of the outer loop.
wait_for_clangd_indexing_loop ==
    /\ wpc = "while"
    /\ IF now < max_total_wait
       THEN wpc' = "select" /\ message_read' = FALSE
       ELSE wpc' = "returned" /\ UNCHANGED message_read
    /\ UNCHANGED <<max_total_wait, max_stale_time, interval, max_interval,
                   last_percentage, last_value, waited, current_interval, now,
                   changedAt, stale, unacked>>
    /\ UNCHANGED <<alive, stream, notIndexVars>>

\* Lines 1380-1381, reached by a `break` of the inner loop.
AfterBreak ==
    wpc' = IF message_read THEN "while" ELSE "sleep"

\* Lines 1325-1379: one iteration of the inner loop.
wait_for_clangd_indexing_read ==
    /\ wpc = "select"
    /\ CASE stream = <<>> /\ alive ->
              \* line 1328: nothing to read
              /\ AfterBreak
              /\ UNCHANGED <<stream, message_read, last_percentage, last_value,
                             waited, current_interval, now, changedAt, stale,
                             unacked>>
         [] ~alive ->
              \* the pipe is at end of file: select is ready, and
              \* _read_lsp_response raises at line 306
              /\ AfterBreak
              /\ UNCHANGED <<stream, message_read, last_percentage, last_value,
                             waited, current_interval, now, changedAt, stale,
                             unacked>>
         [] stream # <<>> /\ alive ->
              LET msg == Head(stream)
                  r == read_frame(msg, NoId) IN
              /\ stream' = Tail(stream)
              /\ \E d \in {0, 1} : now' = Min(now + d, max_total_wait)
              /\ unacked' = (unacked \/ (IsCreate(msg) /\ ~r.ack))
              /\ IF r.next = "raise"
                 THEN /\ AfterBreak
                      /\ UNCHANGED <<message_read, last_percentage, last_value,
                                     waited, current_interval, changedAt, stale>>
                 ELSE /\ message_read' = TRUE
                      /\ IF ~IsIndexProgress(msg)
                         THEN /\ wpc' = "select"
                              /\ UNCHANGED <<last_percentage, last_value, waited,
                                             current_interval, changedAt, stale>>
                         ELSE IF msg.value.percentage = PCT_DONE
                         THEN /\ wpc' = "returned"
                              /\ UNCHANGED <<last_percentage, last_value, waited,
                                             current_interval, changedAt, stale>>
                         ELSE IF NoProgress(msg)
                         THEN /\ waited' = Min(waited + current_interval, MaxTime)
                              /\ stale' = (stale \/
                                           now' - changedAt >= max_stale_time)
                              /\ wpc' = IF GivesUp THEN "returned" ELSE "select"
                              /\ last_percentage' =
                                     IF GivesUp THEN last_percentage
                                     ELSE msg.value.percentage
                              /\ last_value' =
                                     IF GivesUp THEN last_value ELSE msg.value
                              /\ UNCHANGED <<current_interval, changedAt>>
                         ELSE /\ waited' = 0
                              /\ current_interval' = interval
                              /\ last_percentage' = msg.value.percentage
                              /\ last_value' = msg.value
                              /\ changedAt' = now'
                              /\ wpc' = "select"
                              /\ UNCHANGED stale
    /\ UNCHANGED <<max_total_wait, max_stale_time, interval, max_interval>>
    /\ UNCHANGED <<alive, notIndexVars>>

\* Lines 1382-1384.
wait_for_clangd_indexing_sleep ==
    /\ wpc = "sleep"
    /\ now' = Min(now + current_interval, max_total_wait)
    /\ current_interval' = Min(current_interval * 2, max_interval)
    /\ waited' = Min(waited + current_interval', MaxTime)
    /\ wpc' = "while"
    /\ UNCHANGED <<max_total_wait, max_stale_time, interval, max_interval,
                   last_percentage, last_value, message_read, changedAt, stale,
                   unacked>>
    /\ UNCHANGED <<alive, stream, notIndexVars>>

wait_for_clangd_indexing ==
    \/ wait_for_clangd_indexing_loop
    \/ wait_for_clangd_indexing_read
    \/ wait_for_clangd_indexing_sleep

\* Lines 1300-1322: the call begins, with any parameters.
IndexInit ==
    /\ alive = TRUE
    /\ stderrFull = FALSE
    /\ PassInit
    /\ DiffIdle
    /\ ResolveIdle
    /\ ContextIdle
    /\ TuiIdle
    /\ TwiceIdle
    /\ ShutdownIdle
    /\ VolumeIdle
    /\ wpc = "while"
    /\ max_total_wait \in 1..MaxTime
    /\ max_stale_time \in 1..MaxTime
    /\ interval \in 1..MaxInterval
    /\ max_interval \in 1..MaxInterval
    /\ last_percentage = NoPct
    /\ last_value = NoValue
    /\ waited = 0
    /\ current_interval = interval
    /\ message_read = FALSE
    /\ now = 0
    /\ changedAt = 0
    /\ stale = FALSE
    /\ unacked = FALSE

IndexNext ==
    \/ wait_for_clangd_indexing_loop
    \/ wait_for_clangd_indexing_read
    \/ wait_for_clangd_indexing_sleep
    \/ ClangdSend
    \/ ClangdDie

IndexSpec == IndexInit /\ [][IndexNext]_vars

\* The client runs; nothing is assumed of the subprocess.
IndexFairSpec == IndexSpec /\ WF_vars(wait_for_clangd_indexing)

\* clangd asks the client to create a progress token while the client
\* drains the pipe: a request with an id of the server's own numbering.
ClangdCreate ==
    /\ Indexing /\ alive /\ stream = <<>>
    /\ \E i \in {ACK_ID, INIT_MSG_ID} :
         stream' = <<[IndexFrame("ok", M_CREATE, "", NoValue) EXCEPT !.id = i]>>
    /\ UNCHANGED <<alive, notIndexVars, indexVars>>

DrainNext ==
    \/ IndexNext
    \/ ClangdCreate

\* One call of wait_for_clangd_indexing on a session whose subprocess also
\* sends window/workDoneProgress/create requests.
DrainSpec == IndexInit /\ [][DrainNext]_vars

\* ---------------------------------------------------------- parse_diff
\* process_diff_and_print_definitions(diff_lines) for any diff_lines of at
\* most MaxDiffLen lines: the for loop of parse_diff takes the lines one by
\* one, and the caller goes on with what parse_diff returns.
\* HunkStart with the cursor left 1-based.
HunkStartOneBased(start) == start

\* Line 685: the cursor a hunk header sets.
HunkStart(start) == start - 1

\* Lines 679, 682, 686-690 and 694-698: the branch the loop takes for a line.
Branch(text) ==
    CASE StartsWith(text, <<"+", "+", "+", " ", "b", "/">>) -> "file"
      [] OTHER ->
    CASE StartsWith(text, <<"@", "@">>) -> "hunk"
      [] OTHER ->
    CASE /\ StartsWith(text, <<"+">>)
         /\ ~StartsWith(text, <<"+", "+", "+">>)
         /\ current_file # NoFile
         /\ new_line # NoLine -> "add"
      [] OTHER ->
    CASE /\ ~StartsWith(text, <<"-">>)
         /\ ~StartsWith(text, <<"-", "-", "-">>)
         /\ ~StartsWith(text, <<"+", "+", "+">>)
         /\ new_line # NoLine -> "advance"
      [] OTHER -> "none"

\* The unified format: where a diff that stood at `w` stands after `line`.
\* A file is a `---` line, a `+++` line and hunks; a hunk is a header and
\* added, removed and context lines; hunks of a file do not overlap; the
\* no-newline marker follows the last line of the old or of the new file;
\* a hunk with new start 0 has no line of the new file (its range is +0,0).
WfNext(w, line) ==
    LET r == line.role
        after == {"body", "nonl_r", "nonl_end"} IN
    CASE w = "bad" -> "bad"
      [] r = "meta" /\ w \in {"top"} \cup after -> "top"
      [] r = "old" /\ w \in {"top"} \cup after -> "old"
      [] r = "new" /\ w = "old" /\ line.path \notin DOMAIN trueAdds -> "new"
      [] r = "devnull" /\ w = "old" -> "new"
      [] r = "hunk" /\ w = "new" -> "hunk"
      [] r = "hunk" /\ w = "body" /\ line.start - 1 > trueLine -> "hunk"
      [] r = "add" /\ w \in {"hunk", "body", "nonl_r"} /\ trueFile # NoFile
           /\ trueLine >= 0 -> "body"
      [] r = "context" /\ w \in {"hunk", "body"} /\ trueLine >= 0 -> "body"
      [] r = "remove" /\ w \in {"hunk", "body"} -> "body"
      [] r = "nonewline" /\ w = "body" ->
           IF dline.role = "remove" THEN "nonl_r" ELSE "nonl_end"
      [] OTHER -> "bad"

\* The diff read so far is a whole well-formed diff.
WellFormed == wf \in {"body", "nonl_r", "nonl_end"}

\* What the line adds, by the unified format.
Reference(line) ==
    LET r == line.role IN
    /\ wf' = WfNext(wf, line)
    /\ anyAdded' = (anyAdded \/ r = "add")
    /\ trueFile' = CASE r = "new" -> line.path
                      [] r = "devnull" -> NoFile
                      [] OTHER -> trueFile
    /\ trueLine' = CASE r \in {"new", "devnull"} -> NoLine
                      [] r = "hunk" -> line.start - 1
                      [] r \in {"add", "context"} /\ trueLine # NoLine
                           -> trueLine + 1
                      [] OTHER -> trueLine
    /\ trueAdds' = CASE r = "new" /\ line.path \notin DOMAIN trueAdds
                           -> DictSet(trueAdds, line.path, {})
                      [] r = "add" /\ trueFile # NoFile /\ trueLine # NoLine
                           -> DictSet(trueAdds, trueFile,
                                      trueAdds[trueFile] \cup {trueLine})
                      [] OTHER -> trueAdds

\* Lines 679-700: the body of the for loop for a line.
LoopBody(line) ==
    LET b == Branch(line.text) IN
    /\ dline' = line
    /\ current_file' = IF b = "file" THEN line.path ELSE current_file
    /\ file_adds' =
          CASE b = "file" -> DictSet(file_adds, line.path, {})
            [] b = "add" -> DictSet(file_adds, current_file,
                                    file_adds[current_file] \cup {new_line})
            [] OTHER -> file_adds
    /\ new_line' =
          CASE b = "hunk" /\ line.start # NoMatch -> HunkStart(line.start)
            [] b \in {"add", "advance"} -> new_line + 1
            [] OTHER -> new_line
    /\ hdrSeen' =
          CASE b = "file" -> FALSE
            [] b = "hunk" /\ line.start # NoMatch -> TRUE
            [] OTHER -> hdrSeen
    /\ Reference(line)

\* Lines 678-700: one iteration of the for loop.
parse_diff_line ==
    /\ dpc = "loop"
    /\ nlines < MaxDiffLen
    /\ \E line \in DiffLines : LoopBody(line)
    /\ nlines' = nlines + 1
    /\ UNCHANGED dpc
    /\ UNCHANGED notDiffVars

\* Lines 702 and 1458-1463: the loop is over, parse_diff returns file_adds,
\* and the caller returns if it is empty and starts the pass if not.
process_diff_and_print_definitions ==
    /\ dpc = "loop"
    /\ dpc' = IF file_adds = EmptyDict THEN "returned" ELSE "collect"
    /\ UNCHANGED <<nlines, dline, file_adds, current_file, new_line, anyAdded,
                   hdrSeen, wf, trueAdds, trueFile, trueLine>>
    /\ UNCHANGED notDiffVars

\* Lines 672-676.
DiffInit ==
    /\ alive = FALSE
    /\ stderrFull = FALSE
    /\ PassInit
    /\ IndexIdle
    /\ ResolveIdle
    /\ ContextIdle
    /\ TuiIdle
    /\ TwiceIdle
    /\ ShutdownIdle
    /\ VolumeIdle
    /\ dpc = "loop"
    /\ nlines = 0
    /\ dline = NoDiffLine
    /\ file_adds = EmptyDict
    /\ current_file = NoFile
    /\ new_line = NoLine
    /\ anyAdded = FALSE
    /\ hdrSeen = FALSE
    /\ wf = "top"
    /\ trueAdds = EmptyDict
    /\ trueFile = NoFile
    /\ trueLine = NoLine

DiffNext ==
    \/ parse_diff_line
    \/ process_diff_and_print_definitions

DiffSpec == DiffInit /\ [][DiffNext]_vars

\* ------------------------------------------------ the resolution loops
\* _collect_definitions from line 1424 on, for a session that is up.  What
\* the session answers to an identifier's requests is an input of the
\* iteration: an error, no result, a definition in a file that is missing
\* or unreadable, or a definition with its range; the symbol tree of every
\* file is an input of the call.
\* Line 1137.
Seen(ident) == ident \in printed_defs

\* parent = None
NoNode == Node(<<>>, NoRange, <<>>)

\* _find_symbol_and_parent returns None
NotFound == [found |-> FALSE, node |-> NoNode, parent |-> NoNode]

\* Lines 720-735: the first node, in the order of a depth-first walk, that
\* is named `identifier` and whose range contains `line`, with its parent.
RECURSIVE helper(_, _, _, _)
helper(nodes, parent, identifier, line) ==
    IF nodes = <<>>
    THEN NotFound
    ELSE LET node == Head(nodes) IN
         IF /\ node.name = identifier
            /\ node.range # NoRange
            /\ node.range[1] <= line
            /\ line <= node.range[2]
         THEN [found |-> TRUE, node |-> node, parent |-> parent]
         ELSE LET found == helper(node.children, node, identifier, line) IN
              IF found.found
              THEN found
              ELSE helper(Tail(nodes), parent, identifier, line)

\* Line 737.
find_symbol_and_parent(symbols, identifier, line) ==
    helper(symbols, NoNode, identifier, line)

\* Lines 1237-1245: the parent range of a symbol tree for an identifier
\* resolved at line `start`.
ParentRange(symbols, ident, start) ==
    LET found == find_symbol_and_parent(symbols, ident, start) IN
    IF symbols # <<>> /\ found.found /\ found.parent # NoNode
    THEN found.parent.range
    ELSE NoRange

\* Lines 1085-1093: `symbols`, the symbol tree of the file of the diff that
\* is being processed.
symbols == symbolsOf[rfile]

\* Lines 752-757: the record _collect_definition appends.
DefinitionRecord(start, end, identifier, parent_range) ==
    IF parent_range # NoRange
    THEN <<parent_range[1], parent_range[2], <<"parent_of_">> \o identifier>>
    ELSE <<start, end, identifier>>

\* Lines 749-757 with the list of the file assigned instead of appended to.
collect_definition_assign(defs, def_file, start, end, identifier, parent_range) ==
    DictSet(defs, def_file,
            <<DefinitionRecord(start, end, identifier, parent_range)>>)

\* Lines 749-757.
collect_definition(defs, def_file, start, end, identifier, parent_range) ==
    LET had == IF def_file \in DOMAIN defs THEN defs[def_file] ELSE <<>> IN
    DictSet(defs, def_file,
            Append(had, DefinitionRecord(start, end, identifier, parent_range)))

\* Lines 1428-1436 and 1051-1082: the loop over file_adds takes the next
\* file; a file that is missing or empty is passed over.
collect_definitions_loop ==
    /\ rpc = "file"
    /\ IF rfile > NumFiles
       THEN /\ rpc' = "done"
            /\ UNCHANGED <<rfile, lines, scan, occ>>
       ELSE \E readable \in BOOLEAN :
            IF readable
            THEN /\ rpc' = "ident"
                 /\ lines' \in SUBSET Lnums
                 /\ scan' = "added"
                 /\ occ' = 0
                 /\ UNCHANGED rfile
            ELSE /\ rfile' = rfile + 1
                 /\ UNCHANGED <<rpc, lines, scan, occ>>
    /\ asked' = NoLine
    /\ resolved' = NoResolved
    /\ UNCHANGED <<printed_defs, printed_locations, collected_defs, skipped,
                   symbolsOf>>
    /\ UNCHANGED notResolveVars

\* Lines 1136-1264: one iteration of the loop over idents_with_pos, which
\* holds the occurrences on the added lines first (lines 1066-1071) and then
\* those on every other line of the file (lines 1077-1082).
resolve_identifier ==
    /\ rpc = "ident"
    /\ \/ \* the list is at its end
          /\ rpc' = "file"
          /\ rfile' = rfile + 1
          /\ asked' = NoLine
          /\ resolved' = NoResolved
          /\ UNCHANGED <<lines, scan, occ, printed_defs, printed_locations,
                         collected_defs, skipped>>
       \/ /\ occ < NumIdents
          /\ \E ident \in Names, lnum \in Lnums :
               /\ scan = "rest" => lnum \notin lines
               /\ scan' = IF lnum \in lines THEN "added" ELSE "rest"
               /\ occ' = occ + 1
               /\ IF Seen(ident)
                  THEN /\ asked' = NoLine
                       /\ resolved' = NoResolved
                       /\ UNCHANGED <<printed_defs, printed_locations,
                                      collected_defs, skipped>>
                  ELSE /\ asked' = lnum
                       /\ \/ \* an error, no result, a missing or unreadable
                             \* file: `continue`
                             /\ resolved' = NoResolved
                             /\ UNCHANGED <<printed_defs, printed_locations,
                                            collected_defs, skipped>>
                          \/ \E def_file \in DefFiles, rng \in Ranges :
                               LET def_loc == <<def_file, rng[1], rng[2]>>
                                   parent_range ==
                                       ParentRange(symbols, ident, rng[1]) IN
                               IF def_loc \in printed_locations
                               THEN \* lines 1234-1235: `continue`
                                    /\ skipped' = skipped \cup {ident}
                                    /\ resolved' = NoResolved
                                    /\ UNCHANGED <<printed_defs,
                                                   printed_locations,
                                                   collected_defs>>
                               ELSE /\ collected_defs' =
                                         collect_definition(collected_defs,
                                             def_file, rng[1], rng[2], ident,
                                             parent_range)
                                    /\ printed_defs' = printed_defs \cup {ident}
                                    /\ printed_locations' =
                                         printed_locations \cup {def_loc}
                                    /\ resolved' =
                                         [file |-> def_file, start |-> rng[1],
                                          ident |-> ident,
                                          parent |-> parent_range]
                                    /\ UNCHANGED skipped
          /\ UNCHANGED <<rpc, rfile, lines>>
    /\ UNCHANGED symbolsOf
    /\ UNCHANGED notResolveVars

\* Lines 1424-1428.
ResolveInit ==
    /\ alive = FALSE
    /\ stderrFull = FALSE
    /\ PassInit
    /\ IndexIdle
    /\ DiffIdle
    /\ ContextIdle
    /\ TuiIdle
    /\ TwiceIdle
    /\ ShutdownIdle
    /\ VolumeIdle
    /\ rpc = "file"
    /\ rfile = 1
    /\ lines = {}
    /\ scan = "added"
    /\ occ = 0
    /\ printed_defs = {}
    /\ printed_locations = {}
    /\ collected_defs = EmptyDict
    /\ asked = NoLine
    /\ skipped = {}
    /\ symbolsOf \in [SymbolFiles -> Trees]
    /\ resolved = NoResolved

ResolveNext ==
    \/ collect_definitions_loop
    \/ resolve_identifier

ResolveSpec == ResolveInit /\ [][ResolveNext]_vars

\* ---------------------------------------------- the context assembler
\* _merge_and_build_context(collected_defs, file_adds) for any definitions
\* collected, any additions of the diff and any lengths of the files.
\* Line numbers an added line of the diff may have.
LinePool == {3, 10, 12, 16, 20}

\* The added lines of a file of the diff.
AddedSets == {S \in SUBSET LinePool : Cardinality(S) <= 2}

\* (start, end) of a collected definition.
DefRanges == {<<10, 10>>, <<18, 20>>}

\* len(lines) of a file: 0 when _get_file_lines gives no line.
FileLens == {0, NumLines - 8, NumLines, NumLines + 8}

\* The dicts with keys in K and values in V.
Dicts(K, V) == UNION {[D -> V] : D \in SUBSET K}

\* sorted(...)
RECURSIVE sorted(_)
sorted(S) ==
    IF S = {}
    THEN <<>>
    ELSE LET m == CHOOSE x \in S : \A y \in S : x <= y IN
         <<m>> \o sorted(S \ {m})

\* Lines 764-778.
build_essential_lines(defs, numbers, def_file) ==
    LET added == IF def_file \in DOMAIN numbers
                 THEN numbers[def_file]
                 ELSE {}
        records == IF def_file \in DOMAIN defs THEN defs[def_file] ELSE <<>>
    IN added
       \cup UNION {records[i][1]..records[i][2] : i \in 1..Len(records)}

\* Fills with a gap of MAX_GAP lines left open.
FillsBelowMax(gap_size) == 0 < gap_size /\ gap_size < MAX_GAP

\* Line 794: the gaps that are filled.
Fills(gap_size) == 0 < gap_size /\ gap_size <= MAX_GAP

\* Lines 780-797.
fill_context_gaps(essential) ==
    IF essential = {}
    THEN essential
    ELSE LET sorted_lines == sorted(essential)
             filled(i) ==
                 LET current_line == sorted_lines[i]
                     next_line == sorted_lines[i + 1]
                     gap_size == next_line - current_line - 1
                 IN IF Fills(gap_size)
                    THEN (current_line + 1)..(next_line - 1)
                    ELSE {}
         IN essential \cup UNION {filled(i) : i \in 1..(Len(sorted_lines) - 1)}

\* An element of file_context: the file's line of index `first`
\* (0-based), or the marker "// skipping lines {first}-{last}".
Line(i) == [kind |-> "line", first |-> i, last |-> i]

\* SkipMarker with the bounds left 0-based.
SkipMarkerZeroBased(gap_start, gap_len) ==
    [kind |-> "skip", first |-> gap_start, last |-> gap_start + gap_len - 1]

\* Lines 824-828.
SkipMarker(gap_start, gap_len) ==
    [kind |-> "skip", first |-> gap_start + 1, last |-> gap_start + gap_len]

\* Lines 813-814 and 820-821: where the inner while loop started at i stops.
RunEnd(i, n, printed_set, inside) ==
    CHOOSE j \in i..n :
        /\ j = n \/ (j \in printed_set) # inside
        /\ \A k \in i..(j - 1) : (k \in printed_set) = inside

\* Line 823 with a run of MAX_GAP lines elided too.
ElidesFromMax(gap_len) == gap_len >= MAX_GAP

\* Line 823: the run is replaced by a marker.
Elides(gap_len) == gap_len > MAX_GAP

\* Lines 809-828: the while loop from index i on.
RECURSIVE format_from(_, _, _)
format_from(i, n, printed_set) ==
    IF i >= n
    THEN <<>>
    ELSE IF i \in printed_set
         THEN LET region_end == RunEnd(i, n, printed_set, TRUE) IN
              [k \in 1..(region_end - i) |-> Line(i + k - 1)]
                  \o format_from(region_end, n, printed_set)
         ELSE LET gap_end == RunEnd(i, n, printed_set, FALSE)
                  gap_len == gap_end - i
              IN (IF Elides(gap_len)
                  THEN <<SkipMarker(i, gap_len)>>
                  ELSE <<>>)
                     \o format_from(gap_end, n, printed_set)

\* Lines 799-830.
format_file_context(def_file, printed_set) ==
    IF n_lines[def_file] = 0
    THEN <<>>
    ELSE format_from(0, n_lines[def_file], printed_set)

\* Lines 851-856: the block of a file.
Block(def_file, body) == [label |-> def_file, body |-> body]

\* Lines 866-877: the call, up to the loop of _get_definition_context.
merge_and_build_context ==
    /\ cpc = "start"
    /\ cpc' = "loop"
    /\ diff_line_numbers' = [f \in DOMAIN file_adds |-> file_adds[f]]
    /\ todo' = sorted(DOMAIN collected_defs)
    /\ UNCHANGED <<n_lines, ctx_file, essential_lines, print_lines,
                   file_context, context_parts>>
    /\ UNCHANGED notContextVars

\* Lines 841-856: one iteration of the loop over collected_defs.
get_definition_context ==
    /\ cpc = "loop"
    /\ todo # <<>>
    /\ LET def_file == Head(todo)
           essential == build_essential_lines(collected_defs,
                                              diff_line_numbers, def_file)
           printed_set == fill_context_gaps(essential)
           context_of_file == format_file_context(def_file, printed_set)
       IN /\ ctx_file' = def_file
          /\ essential_lines' = essential
          /\ IF essential = {}
             THEN UNCHANGED <<print_lines, file_context, context_parts>>
             ELSE /\ print_lines' = printed_set
                  /\ file_context' = context_of_file
                  /\ context_parts' =
                        IF context_of_file # <<>>
                        THEN Append(context_parts,
                                    Block(def_file, context_of_file))
                        ELSE context_parts
    /\ todo' = Tail(todo)
    /\ UNCHANGED <<cpc, n_lines, diff_line_numbers>>
    /\ UNCHANGED notContextVars

\* Lines 858 and 879-885: the loop is over and the bundle is returned.
merge_and_build_context_return ==
    /\ cpc = "loop"
    /\ todo = <<>>
    /\ cpc' = "done"
    /\ UNCHANGED <<n_lines, diff_line_numbers, todo, ctx_file, essential_lines,
                   print_lines, file_context, context_parts>>
    /\ UNCHANGED notContextVars

\* Line 1464: the arguments of the call.
ContextInit ==
    /\ alive = FALSE
    /\ stderrFull = FALSE
    /\ PassInit
    /\ IndexIdle
    /\ DiffAtRest
    /\ ResolveAtRest
    /\ TuiIdle
    /\ TwiceIdle
    /\ ShutdownIdle
    /\ VolumeIdle
    /\ collected_defs \in
          Dicts(DefFiles,
                {<<DefinitionRecord(r[1], r[2], <<"x">>, NoRange)>> :
                    r \in DefRanges})
    /\ file_adds \in Dicts(DefFiles, AddedSets)
    /\ n_lines \in [DefFiles -> FileLens]
    /\ cpc = "start"
    /\ diff_line_numbers = EmptyDict
    /\ todo = <<>>
    /\ ctx_file = NoFile
    /\ essential_lines = {}
    /\ print_lines = {}
    /\ file_context = <<>>
    /\ context_parts = <<>>

ContextNext ==
    \/ merge_and_build_context
    \/ get_definition_context
    \/ merge_and_build_context_return

ContextSpec == ContextInit /\ [][ContextNext]_vars

\* ------------------------------------------------ parse_diff, twice
\* Two calls of parse_diff on one instance: the first on any diff_lines of
\* at most MaxDiffLen lines, the second on the same diff_lines.  parse_diff
\* reads and writes no attribute of the instance, so a call on a second
\* instance is the same as a second call on the first.
\* The lines of the diffs of the two calls.
TwiceLines ==
    {l \in DiffLines :
        \/ l.role = "new" /\ l.path = 1
        \/ l.role = "hunk" /\ l.start \in {1, MaxStart}
        \/ l.role \in {"add", "context", "remove"} /\ l.text[2] = "x"}

\* The cursor of the call before.
LeftoverCursor == new_line

\* Line 676.
InitialCursor == NoLine

\* Lines 672-676: parse_diff is called and its locals are created.
parse_diff_call ==
    /\ dpc \in {"start", "returned"}
    /\ calls < 2
    /\ calls' = calls + 1
    /\ dpc' = "loop"
    /\ file_adds' = EmptyDict
    /\ current_file' = NoFile
    /\ new_line' = InitialCursor
    /\ nlines' = 0
    /\ dline' = NoDiffLine
    /\ anyAdded' = FALSE
    /\ hdrSeen' = FALSE
    /\ wf' = "top"
    /\ trueAdds' = EmptyDict
    /\ trueFile' = NoFile
    /\ trueLine' = NoLine
    /\ UNCHANGED <<diff_lines, first_adds>>
    /\ UNCHANGED notTwiceVars

\* Lines 678-700: one iteration of the for loop, of the first call on any
\* line and of the second on the line the first call took there.
parse_diff_iteration ==
    /\ dpc = "loop"
    /\ \/ calls = 1 /\ nlines < MaxDiffLen
       \/ calls = 2 /\ nlines < Len(diff_lines)
    /\ \E line \in IF calls = 1 THEN TwiceLines ELSE {diff_lines[nlines + 1]} :
         /\ LoopBody(line)
         /\ diff_lines' = IF calls = 1
                          THEN Append(diff_lines, line)
                          ELSE diff_lines
    /\ nlines' = nlines + 1
    /\ UNCHANGED <<dpc, calls, first_adds>>
    /\ UNCHANGED notTwiceVars

\* Line 702: the loop is over and file_adds is returned.
parse_diff_return ==
    /\ dpc = "loop"
    /\ calls = 2 => nlines = Len(diff_lines)
    /\ dpc' = "returned"
    /\ first_adds' = IF calls = 1 THEN file_adds ELSE first_adds
    /\ UNCHANGED <<calls, diff_lines, nlines, dline, file_adds, current_file,
                   new_line, anyAdded, hdrSeen, wf, trueAdds, trueFile,
                   trueLine>>
    /\ UNCHANGED notTwiceVars

TwiceInit ==
    /\ alive = FALSE
    /\ stderrFull = FALSE
    /\ PassInit
    /\ IndexIdle
    /\ ResolveIdle
    /\ ContextIdle
    /\ TuiIdle
    /\ TwiceIdle
    /\ ShutdownIdle
    /\ VolumeIdle
    /\ dpc = "start"
    /\ nlines = 0
    /\ dline = NoDiffLine
    /\ file_adds = EmptyDict
    /\ current_file = NoFile
    /\ new_line = NoLine
    /\ anyAdded = FALSE
    /\ hdrSeen = FALSE
    /\ wf = "top"
    /\ trueAdds = EmptyDict
    /\ trueFile = NoFile
    /\ trueLine = NoLine

TwiceNext ==
    \/ parse_diff_call
    \/ parse_diff_iteration
    \/ parse_diff_return

TwiceSpec == TwiceInit /\ [][TwiceNext]_vars

\* ------------------------------- the finally clause, step by step
\* Lines 1440-1454 for a subprocess that runs or has exited, that takes
\* any time to exit once asked to, and whose terminate() and kill() may
\* raise; an exception may be on its way out of the try block.
\* proc.wait(timeout=5) raises TimeoutExpired however long it waits.
WaitAlwaysExpires == TRUE

\* Line 1444: proc.wait(timeout=5) raises TimeoutExpired.
WaitExpires == exit_after > WAIT_TIMEOUT

\* Line 1442.
finally_poll ==
    /\ spc = "poll"
    /\ wasRunning' = alive
    /\ spc' = IF alive THEN "terminate" ELSE "cleanup"
    /\ log' = Append(log, "poll")
    /\ UNCHANGED <<alive, exit_after, terminate_raises, kill_raises,
                   propagating>>
    /\ UNCHANGED notShutdownVars

\* Line 1443.
finally_terminate ==
    /\ spc = "terminate"
    /\ spc' = IF terminate_raises THEN "except" ELSE "wait"
    /\ log' = Append(log, "terminate")
    /\ UNCHANGED <<alive, exit_after, terminate_raises, kill_raises,
                   propagating, wasRunning>>
    /\ UNCHANGED notShutdownVars

\* Line 1444.
finally_wait ==
    /\ spc = "wait"
    /\ IF WaitExpires
       THEN spc' = "except" /\ UNCHANGED alive
       ELSE spc' = "cleanup" /\ alive' = FALSE
    /\ log' = Append(log, "wait")
    /\ UNCHANGED <<exit_after, terminate_raises, kill_raises, propagating,
                   wasRunning>>
    /\ UNCHANGED notShutdownVars

\* Lines 1445-1450.
finally_kill ==
    /\ spc = "except"
    /\ spc' = "cleanup"
    /\ alive' = IF kill_raises THEN alive ELSE FALSE
    /\ log' = Append(log, "kill")
    /\ UNCHANGED <<exit_after, terminate_raises, kill_raises, propagating,
                   wasRunning>>
    /\ UNCHANGED notShutdownVars

\* Line 1453 and DockerManager.cleanup_clangd, which catches what pkill
\* raises; then the return of line 1438 or the exception goes on.
finally_cleanup ==
    /\ spc = "cleanup"
    /\ spc' = IF propagating THEN "raised" ELSE "returned"
    /\ log' = Append(log, "cleanup_clangd")
    /\ UNCHANGED <<alive, exit_after, terminate_raises, kill_raises,
                   propagating, wasRunning>>
    /\ UNCHANGED notShutdownVars

ShutdownInit ==
    /\ stderrFull = FALSE
    /\ PassInit
    /\ IndexIdle
    /\ DiffIdle
    /\ ResolveIdle
    /\ ContextIdle
    /\ TuiIdle
    /\ TwiceIdle
    /\ VolumeIdle
    /\ alive \in BOOLEAN
    /\ spc = "poll"
    /\ exit_after \in 0..MaxExit
    /\ terminate_raises \in BOOLEAN
    /\ kill_raises \in BOOLEAN
    /\ propagating \in BOOLEAN
    /\ wasRunning = FALSE
    /\ log = <<>>

ShutdownNext ==
    \/ finally_poll
    \/ finally_terminate
    \/ finally_wait
    \/ finally_kill
    \/ finally_cleanup

ShutdownSpec == ShutdownInit /\ [][ShutdownNext]_vars

\* ------------------------------------------ display_prompt_with_options
\* One call of display_prompt_with_options(message, options) for a message
\* that is not empty and 1 to MaxOptions options; the keys are inputs.
\* The option texts: the i-th option is <<i>>, the empty string <<>>.
OptionLists == {[i \in 1..n |-> <<i>>] : n \in 1..MaxOptions}

\* What win.getch() may return: the digits, the key after "9", "q", two
\* other keys.
Keys == (ORD_ZERO..(ORD_ZERO + 10)) \cup {ORD_Q, 10, 120}

\* ord(str(n)) raises TypeError when str(n) has more than one character.
OrdStrRaises(n) == n >= 10

\* ord(str(n)) for a one-digit n
OrdStr(n) == ORD_ZERO + n

\* Lines 9-12: the calls made before the try statement.
SetupCalls == <<"initscr", "noecho", "cbreak", "keypad(True)">>

\* Lines 31-41: the calls that draw the window.
DrawCalls == <<"newwin", "clear", "box", "addstr", "refresh">>

\* The calls of `made` added to the log and to the counts.
Calls(made) ==
    /\ curses_log' = curses_log \o made
    /\ called' = [c \in Curses |->
                    called[c] + Cardinality({k \in DOMAIN made : made[k] = c})]

\* The finally clause run only when the function returns.
RestoreOnReturn(exit) ==
    IF exit = "returned"
    THEN <<"nocbreak", "keypad(False)", "echo", "endwin">>
    ELSE <<>>

\* Lines 49-53: the finally clause, whether the try block returned or
\* raised.
Restore(exit) == <<"nocbreak", "keypad(False)", "echo", "endwin">>

\* Lines 9-12: curses is set up.  Any of the four calls may raise
\* curses.error (cbreak() does when the standard input is not a terminal);
\* they stand before the try statement, so the exception leaves the function
\* at once.
display_prompt_with_options_setup ==
    /\ tpc = "start"
    /\ \E n \in 0..Len(SetupCalls) :
         /\ Calls(SubSeq(SetupCalls, 1, n))
         /\ tpc' = IF n = Len(SetupCalls) THEN "try" ELSE "raised"
    /\ UNCHANGED <<options, key, nkeys, ret>>
    /\ UNCHANGED notTuiVars

\* Lines 14-41: the window is drawn.  The sizes computed at lines 15-26, a
\* window that does not fit the screen (newwin, line 31) and text that does
\* not fit the window (addstr, lines 35-39) raise inside the try block.
display_prompt_with_options_draw ==
    /\ tpc = "try"
    /\ \E n \in 0..Len(DrawCalls) :
         IF n = Len(DrawCalls)
         THEN /\ Calls(DrawCalls)
              /\ tpc' = "getch"
         ELSE /\ Calls(SubSeq(DrawCalls, 1, n) \o Restore("raised"))
              /\ tpc' = "raised"
    /\ UNCHANGED <<options, key, nkeys, ret>>
    /\ UNCHANGED notTuiVars

\* Line 45 when it raises nothing.
IsOptionKey(k) == ORD_ONE <= k /\ k <= OrdStr(Len(options))

\* Lines 43-53: one iteration of the while loop; the finally clause runs
\* when the function returns or raises.
display_prompt_with_options_key ==
    /\ tpc = "getch"
    /\ nkeys < MaxKeys
    /\ \E k \in Keys :
         /\ key' = k
         /\ IF ORD_ONE <= k /\ OrdStrRaises(Len(options))
            THEN \* the second comparison of line 45 raises TypeError
                 /\ tpc' = "raised"
                 /\ UNCHANGED ret
            ELSE IF IsOptionKey(k)
            THEN /\ tpc' = "returned"
                 /\ ret' = options[k - ORD_ONE + 1]
            ELSE IF k = ORD_Q
            THEN /\ tpc' = "returned"
                 /\ ret' = <<>>
            ELSE UNCHANGED <<tpc, ret>>
    /\ nkeys' = nkeys + 1
    /\ Calls(<<"getch">> \o (IF tpc' = "getch" THEN <<>> ELSE Restore(tpc')))
    /\ UNCHANGED options
    /\ UNCHANGED notTuiVars

TuiInit ==
    /\ alive = FALSE
    /\ stderrFull = FALSE
    /\ PassInit
    /\ IndexIdle
    /\ DiffIdle
    /\ ResolveIdle
    /\ ContextIdle
    /\ TwiceIdle
    /\ ShutdownIdle
    /\ VolumeIdle
    /\ tpc = "start"
    /\ options \in OptionLists
    /\ key = NoKey
    /\ nkeys = 0
    /\ ret = NoRet
    /\ called = [c \in Curses |-> 0]
    /\ curses_log = <<>>

TuiNext ==
    \/ display_prompt_with_options_setup
    \/ display_prompt_with_options_draw
    \/ display_prompt_with_options_key

TuiSpec == TuiInit /\ [][TuiNext]_vars

\* ------------------------------------- the shared build volume
\* Up to MaxCalls calls of DockerManager.initialize_shared_build_volume in
\* one process, one after the other.  Every docker command succeeds or
\* fails (subprocess.run with check=True raises CalledProcessError) as an
\* input, within what docker does: `docker run --name` fails when a
\* container of that name exists, `docker stop` fails when none exists.
\* Lines 394-406: the call begins.
initialize_shared_build_volume ==
    /\ vpc \in {"start", "returned", "raised"}
    /\ init_calls < MaxCalls
    /\ init_calls' = init_calls + 1
    /\ entry_flag' = build_volume_initialized
    /\ docker_log' = <<>>
    /\ init_error' = FALSE
    /\ vpc' = IF build_volume_initialized THEN "returned" ELSE "create"
    /\ UNCHANGED <<build_volume_initialized, container_exists>>
    /\ UNCHANGED notVolumeVars

\* Lines 372-392, called at line 406, before the try statement.
create_shared_build_volume ==
    /\ vpc = "create"
    /\ \E inspect_ok, create_ok \in BOOLEAN :
         IF inspect_ok
         THEN /\ docker_log' = docker_log \o <<"volume inspect">>
              /\ vpc' = "try"
         ELSE /\ docker_log' = docker_log \o <<"volume inspect", "volume create">>
              /\ vpc' = IF create_ok THEN "try" ELSE "raised"
    /\ UNCHANGED <<build_volume_initialized, container_exists, init_error,
                   init_calls, entry_flag>>
    /\ UNCHANGED notVolumeVars

\* Lines 412-445: the try block.
initialize_shared_build_volume_try ==
    /\ vpc = "try"
    /\ vpc' = "finally"
    /\ \E run_ok, exec_ok, created \in BOOLEAN :
         IF run_ok /\ ~container_exists
         THEN /\ docker_log' = docker_log \o <<"run", "exec">>
              /\ container_exists' = TRUE
              /\ build_volume_initialized' =
                    (build_volume_initialized \/ exec_ok)
              /\ init_error' = ~exec_ok
         ELSE \* docker run fails, with or without the container created
              /\ docker_log' = docker_log \o <<"run">>
              /\ container_exists' = (container_exists \/ created)
              /\ init_error' = TRUE
              /\ UNCHANGED build_volume_initialized
    /\ UNCHANGED <<init_calls, entry_flag>>
    /\ UNCHANGED notVolumeVars

\* Lines 447-463: the finally clause; a CalledProcessError of `docker stop`
\* or `docker rm` is caught and logged, then the function returns or the
\* exception of the try block goes on.
initialize_shared_build_volume_finally ==
    /\ vpc = "finally"
    /\ vpc' = IF init_error THEN "raised" ELSE "returned"
    /\ \E stop_ok, rm_ok \in BOOLEAN :
         IF stop_ok /\ container_exists
         THEN /\ docker_log' = docker_log \o <<"stop", "rm">>
              /\ container_exists' = ~rm_ok
         ELSE /\ docker_log' = docker_log \o <<"stop">>
              /\ UNCHANGED container_exists
    /\ UNCHANGED <<build_volume_initialized, init_error, init_calls,
                   entry_flag>>
    /\ UNCHANGED notVolumeVars

\* Line 17: the class attribute when the process starts.
VolumeInit ==
    /\ alive = FALSE
    /\ stderrFull = FALSE
    /\ PassInit
    /\ IndexIdle
    /\ DiffIdle
    /\ ResolveIdle
    /\ ContextIdle
    /\ TuiIdle
    /\ TwiceIdle
    /\ ShutdownIdle
    /\ vpc = "start"
    /\ build_volume_initialized = FALSE
    /\ container_exists \in BOOLEAN
    /\ init_error = FALSE
    /\ init_calls = 0
    /\ entry_flag = FALSE
    /\ docker_log = <<>>

VolumeNext ==
    \/ initialize_shared_build_volume
    \/ create_shared_build_volume
    \/ initialize_shared_build_volume_try
    \/ initialize_shared_build_volume_finally

VolumeSpec == VolumeInit /\ [][VolumeNext]_vars

\* ------------------------------------------------------------- claims
\* The frame the client's latest step read, when it read one.
ReadOne == step.read # <<>>

Wrote(method) == \E k \in 1..Len(step.wrote) : step.wrote[k].method = method

\* C1: a call of _read_lsp_response with an expected id returns only a frame
\* whose id is the expected id, and reading a $/progress notification or a
\* window/workDoneProgress/create request never makes the call return.
C1_ReturnsOnlyExpected ==
    step.outcome = "returned" =>
        /\ step.read[1].id = step.expected
        /\ step.read[1].method \notin {M_PROGRESS, M_CREATE}

\* C2: once a call has raised while an identifier was being resolved, the
\* pass writes nothing more to the session and does not complete normally.
C2_FatalAborts ==
    fatal => (step.wrote = <<>> /\ pc # "done")

\* C3: self.context is never assigned from a session in which a protocol
\* violation (header, length, JSON) was read.
C3_NoContextAfterViolation ==
    context => ~violated

\* C4: a header block without a positive numeric Content-Length, a body that
\* is not JSON, and JSON without a header each make the read raise; none is
\* skipped or accepted.
C4_StrictFraming ==
    (ReadOne /\ step.read[1].shape \in {"nolen", "badlen", "badjson", "raw"})
        => step.outcome = "raised"

\* C5: once the per-call timeout of a call has elapsed the reader is never
\* blocked: it can take the step that returns or raises.
C5_TimeoutBoundsEveryRead ==
    (rd # "idle" /\ TimedOut) => ENABLED read_lsp_response

\* C6: every window/workDoneProgress/create frame read during a wait is
\* answered by exactly one {id: 0, result: null} frame in the same step, and
\* the wait continues.
C6_CreateAcknowledged ==
    (ReadOne /\ step.read[1].shape = "ok" /\ step.read[1].method = M_CREATE)
        => (step.wrote = <<workDoneProgress_response>> /\ step.outcome = "")

\* C7: `initialized` is written only in the step that read a frame carrying
\* the initialize request's id, and every didOpen, definition or
\* documentSymbol message is written after `initialized`.
C7_HandshakeOrder ==
    /\ Wrote(M_INITIALIZED) => (ReadOne /\ step.read[1].id = INIT_MSG_ID)
    /\ \A k \in 1..Len(step.wrote) :
         step.wrote[k].method \in {M_DIDOPEN, M_DEFINITION, M_DOCSYMBOL} =>
             /\ ready
             /\ \A j \in k..Len(step.wrote) : step.wrote[j].method # M_INITIALIZED

\* C7, its case: a definition request has been written after the handshake.
C7_Witness ==
    /\ ready
    /\ pc = "def_read"
    /\ step.wrote = <<create_lsp_message(M_DEFINITION, DEFINITION_MSG_ID)>>

\* C8: a pass that was given a subprocess terminates it: on every path the
\* subprocess is eventually not running.
C8_SubprocessTerminated ==
    spawned ~> ~alive

\* C9: the response a call returns answers the request the call waits for,
\* not an earlier request of the session; stated for a subprocess that has
\* written nothing but well-framed responses to the client's requests.
C9_ResponseCorrelated ==
    (noise = 0 /\ step.outcome = "returned" /\ step.read[1].re # 0)
        => step.read[1].re = 1

\* C10: the id of every request written is greater than the id of every
\* request written before it in the session.
C10_RequestIdsIncrease ==
    \A k \in RequestsOf(step.wrote) :
        /\ \A p \in prevIds : step.wrote[k].id > p
        /\ \A j \in RequestsOf(step.wrote) :
             j < k => step.wrote[j].id < step.wrote[k].id

\* C11: wait_for_clangd_indexing returns once the total wait budget is
\* exceeded, whatever the subprocess writes.
C11_ReturnsAfterBudget ==
    (Indexing /\ now >= max_total_wait) ~> (wpc = "returned")

\* The parameters are ordered as the defaults (1, 10, 60, 600) are.
DefaultOrder ==
    /\ interval < max_interval
    /\ max_interval < max_stale_time
    /\ max_stale_time < max_total_wait

\* C12: when a backgroundIndexProgress value is read that has been the last
\* value for max_stale_time or more, the function gives up: it has returned,
\* before the total wait budget is used up.  Stated for parameters ordered
\* as the defaults are.
C12_StaleGivesUp ==
    (DefaultOrder /\ stale /\ now < max_total_wait) => wpc = "returned"

\* C13: the subprocess is never blocked on a full standard-error pipe while
\* the client waits for a response.
C13_StderrNeverBlocks ==
    ~(alive /\ stderrFull /\ rd # "idle")

\* C14: for a well-formed diff without an added line parse_diff returns an
\* empty mapping and the caller returns without starting the pass.
C14_NoAdditionsNoSession ==
    (dpc \in {"returned", "collect"} /\ WellFormed /\ ~anyAdded)
        => (file_adds = EmptyDict /\ dpc = "returned")

\* The line the loop of parse_diff has just taken is an added line as the
\* code tells one: it begins with `+` and not with `+++`.
PlusLine(text) ==
    StartsWith(text, <<"+">>) /\ ~StartsWith(text, <<"+", "+", "+">>)

\* C15: a hunk header with new-file start c sets the cursor to c - 1; with
\* a cursor and a current file, a line beginning with `+` (and not `+++`)
\* records the cursor in the current file's set and advances it, a context
\* line advances it and records nothing, a removal line changes nothing.
C15_CursorRule ==
    [][(dpc = "loop" /\ nlines' = nlines + 1) =>
         LET text == dline'.text IN
         /\ (StartsWith(text, <<"@", "@">>) /\ dline'.start # NoMatch)
               => new_line' = dline'.start - 1
         /\ (current_file # NoFile /\ new_line # NoLine) =>
               /\ PlusLine(text) =>
                     /\ file_adds' =
                           DictSet(file_adds, current_file,
                                   file_adds[current_file] \cup {new_line})
                     /\ new_line' = new_line + 1
               /\ StartsWith(text, <<" ">>) =>
                     (new_line' = new_line + 1 /\ file_adds' = file_adds)
               /\ StartsWith(text, <<"-">>) =>
                     (new_line' = new_line /\ file_adds' = file_adds)
      ]_vars

\* C15, its case: a header with new-file start MaxStart (5) and three `+`
\* lines have given exactly {4, 5, 6}.
C15_Witness ==
    /\ dpc = "loop"
    /\ dline.role = "add"
    /\ current_file # NoFile
    /\ file_adds[current_file] = {MaxStart - 1, MaxStart, MaxStart + 1}
    /\ new_line = MaxStart + 2

\* C16: for a well-formed diff, file_adds is the mapping from each file to
\* the 0-based new-file line numbers of the lines the diff adds to it.
C16_ExactAdditions ==
    (dpc = "loop" /\ WellFormed) => file_adds = trueAdds

\* C17: after a `+++ b/` line the current file's set stays empty until a
\* hunk header has been parsed.
C17_MarkerResetsCursor ==
    (dpc = "loop" /\ current_file # NoFile /\ ~hdrSeen)
        => file_adds[current_file] = {}

\* C18: every definition request is for an identifier occurrence on a line
\* of the file's added-line set.
C18_ScopedScanning ==
    asked # NoLine => asked \in lines

\* The records of collected_defs, as (file, position in the file's list).
Records ==
    UNION {{<<f, i>> : i \in 1..Len(collected_defs[f])} :
             f \in DOMAIN collected_defs}

\* C19: collected_defs holds no two records of the same file with the same
\* (start, end).
C19_NoDuplicateRange ==
    \A p \in Records, q \in Records :
        (p[1] = q[1] /\ p[2] # q[2]) =>
            ~(/\ collected_defs[p[1]][p[2]][1] = collected_defs[q[1]][q[2]][1]
              /\ collected_defs[p[1]][p[2]][2] = collected_defs[q[1]][q[2]][2])

\* The records whose label is the name, or parent_of_ and the name.
LabelledFor(n) ==
    {p \in Records :
        collected_defs[p[1]][p[2]][3] \in {n, <<"parent_of_">> \o n}}

\* C20: for every identifier name, collected_defs holds at most one record
\* whose label is the name or parent_of_<name>, and the record of a name was
\* appended by the first resolution of the name that found a definition.
C20_OncePerName ==
    \A n \in Names :
        /\ Cardinality(LabelledFor(n)) <= 1
        /\ ~(n \in skipped /\ n \in printed_defs)


\* C21: every line number held in file_adds is a line of a file, so it is
\* not negative, whatever the diff is (a hunk header with new start 0
\* included).
C21_LinesInBounds ==
    \A f \in DOMAIN file_adds : \A n \in file_adds[f] : n >= 0


\* C22: a parent range recorded with a definition is the range of the
\* immediate parent of a node of the defining file's symbol tree that is
\* named like the identifier and contains the resolved start line.
C22_ParentFromDefiningFile ==
    resolved.parent # NoRange =>
        resolved.parent =
            ParentRange(symbolsOf[resolved.file], resolved.ident,
                        resolved.start)


\* The pairs of essential lines that are adjacent in sorted order.
Adjacent ==
    {p \in essential_lines \X essential_lines :
        /\ p[1] < p[2]
        /\ \A l \in essential_lines : l <= p[1] \/ l >= p[2]}

\* C23: the print set is the essential lines plus exactly the lines
\* strictly between two adjacent essential lines with 1 to 5 lines between
\* them; a larger gap is left open, so {10, 12} gives {10, 11, 12} and
\* {10, 20} gives {10, 20}.
C23_GapFill ==
    (cpc # "start" /\ essential_lines # {}) =>
        /\ print_lines =
              essential_lines \cup
              {l \in 0..(NumLines + 8) :
                  \E p \in Adjacent :
                      /\ p[1] < l /\ l < p[2]
                      /\ p[2] - p[1] - 1 \in 1..5}
        /\ essential_lines = {10, 12} => print_lines = {10, 11, 12}
        /\ essential_lines = {10, 20} => print_lines = {10, 20}

\* The boundary of C23: five lines between two essential lines are filled
\* and six are not.
C23_Witness ==
    /\ cpc = "done"
    /\ context_parts # <<>>
    /\ essential_lines = {10, 16}
    /\ print_lines = 10..16


\* The file lines (0-based) an element of file_context stands for.
Covers(entry) ==
    IF entry.kind = "line"
    THEN {entry.first}
    ELSE (entry.first - 1)..(entry.last - 1)

\* C24: a file rendered from a gap-filled print set has no run of 1 to 5
\* lines outside the print set, at its start, between printed regions or at
\* its end: every line of the file is printed or covered by a marker.
C24_NoShortRun ==
    (/\ cpc # "start"
     /\ ctx_file # NoFile
     /\ essential_lines # {}
     /\ n_lines[ctx_file] > 0) =>
        \A l \in 0..(n_lines[ctx_file] - 1) :
            \E k \in 1..Len(file_context) : l \in Covers(file_context[k])


\* The latest file rendered had the essential lines {10, 20} and more than
\* 20 lines.
TenAndTwenty ==
    /\ cpc # "start"
    /\ ctx_file # NoFile
    /\ essential_lines = {10, 20}
    /\ n_lines[ctx_file] > 20

\* file_context holds line 10, one marker with the stated range, line 20,
\* one after the other.
MarkerBetween(first, last) ==
    \E k \in 2..(Len(file_context) - 1) :
        /\ file_context[k - 1] = Line(10)
        /\ file_context[k] = [kind |-> "skip", first |-> first, last |-> last]
        /\ file_context[k + 1] = Line(20)

\* C25 as stated: for the essential lines {10, 20} of the diff parser and
\* the resolver in a file of more than 20 lines, the print set is {10, 20}
\* and one marker stating the range 11-19 is emitted between the two lines.
C25_MarkerElevenNineteen ==
    TenAndTwenty => (print_lines = {10, 20} /\ MarkerBetween(11, 19))

\* C25, amended: the print set is {10, 20} and the one marker between the
\* two printed lines states 12-20, the 1-based numbers of the skipped lines
\* 11 to 19 (0-based, as the essential lines are).
C25_MarkerOneBased ==
    TenAndTwenty => (print_lines = {10, 20} /\ MarkerBetween(12, 20))

C25_Witness ==
    /\ TenAndTwenty
    /\ cpc = "done"
    /\ Len(context_parts) = 1
    /\ context_parts[1].body = file_context


\* The files with a block in the bundle.
Labelled == {context_parts[k].label : k \in 1..Len(context_parts)}

\* C26: the bundle has a block for every readable file with at least one
\* recorded definition or at least one added line of the diff.
C26_BlockPerFile ==
    cpc = "done" =>
        \A f \in DefFiles :
            (/\ n_lines[f] > 0
             /\ \/ f \in DOMAIN collected_defs
                \/ f \in DOMAIN file_adds /\ file_adds[f] # {}) =>
                f \in Labelled


\* C27: the key read last decides the call: the digit k with
\* 1 <= k <= len(options) returns options[k-1] (here options[k], 1-based),
\* "q" returns the empty string, any other key is ignored; curses is
\* initialised once and the window drawn once per call.
C27_KeyDispatch ==
    /\ nkeys > 0 =>
         LET k == key - ORD_ZERO IN
         IF k \in 1..9 /\ k <= Len(options)
         THEN tpc = "returned" /\ ret = options[k]
         ELSE IF key = ORD_Q
         THEN tpc = "returned" /\ ret = <<>>
         ELSE tpc = "getch" /\ ret = NoRet
    /\ (tpc \in {"getch", "returned"} \/ (tpc = "raised" /\ nkeys > 0)) =>
         \A c \in Curses \ {"endwin"} : called[c] = 1


\* C28: a second call of parse_diff on the diff lines of the first returns
\* the mapping the first returned: the result depends on the lines only,
\* not on the call made before.
C28_SameResultTwice ==
    (calls = 2 /\ dpc = "returned") => file_adds = first_adds

\* Two calls have returned for a diff in which a `+` line comes before the
\* first hunk header (the cursor is None there) and one after it.
C28_Witness ==
    /\ calls = 2
    /\ dpc = "returned"
    /\ Len(diff_lines) = 4
    /\ diff_lines[2].role = "add"
    /\ diff_lines[3].role = "hunk"
    /\ file_adds = DictSet(EmptyDict, 1, {0})


\* The subprocess has exited and a call is at its poll or inside the loop
\* that reads the header.
DeadInRead == ~alive /\ rd \in {"poll", "hdr", "junk"}

\* C29: when the subprocess has exited at the start of a read, or exits
\* while a header is being read, the call is never stuck (it can take a
\* step, or the deadline can pass and then it can), and the step it takes
\* raises and returns no frame.
C29_DeathRaises ==
    /\ [](DeadInRead =>
            (ENABLED read_lsp_response \/ (~TimedOut /\ ENABLED Tick)))
    /\ [][(DeadInRead /\ read_lsp_response) =>
            (step'.outcome = "raised" /\ step'.read = <<>>)]_vars

\* The subprocess exited inside a header and the call has raised.
C29_Witness ==
    /\ ~alive
    /\ step.outcome = "raised"
    /\ step.read = <<>>
    /\ ~violated
    /\ pc = "finally"


\* The calls of the finally clause that have been made.
Logged == {log[k] : k \in 1..Len(log)}

\* The position of a call in the log (0: not made).
At(call) ==
    IF call \in Logged THEN CHOOSE k \in 1..Len(log) : log[k] = call ELSE 0

\* C30: once the finally clause is over, a subprocess that was running was
\* asked to terminate first and was killed exactly when terminate() raised
\* or the subprocess took longer than the wait of 5 seconds to exit; one
\* that had exited was neither terminated nor killed; and in every case the
\* container-wide cleanup was the last call.
C30_Shutdown ==
    spc \in {"returned", "raised"} =>
        /\ wasRunning =>
             /\ At("terminate") = 2
             /\ "kill" \in Logged <=> (terminate_raises \/ exit_after > 5)
             /\ "kill" \in Logged => At("kill") > At("terminate")
        /\ ~wasRunning => Logged \cap {"terminate", "wait", "kill"} = {}
        /\ log[Len(log)] = "cleanup_clangd"
        /\ \A k \in 1..Len(log) : log[k] = "cleanup_clangd" => k = Len(log)

\* The subprocess did not exit within the wait and was killed.
C30_Witness ==
    /\ spc = "returned"
    /\ log = <<"poll", "terminate", "wait", "kill", "cleanup_clangd">>
    /\ ~alive

\* C31: expected misses are not fatal and change nothing.  A file of the
\* diff that is not on disk or gives no contents gets no message written and
\* the pass goes to the next file; an identifier whose definition response
\* has no result, or whose definition file is not on disk or gives no
\* contents, leaves collected_defs, printed_defs and printed_locations as they
\* were, raises nothing, and the pass goes to the next identifier.
C31_MissesChangeNothing ==
    [][/\ (process_file_identifiers /\ fi <= NumFiles /\ pc' = "file") =>
            /\ fi' = fi + 1
            /\ step'.wrote = <<>>
            /\ ~err'
            /\ UNCHANGED <<printed, collected, printedLocs, fatal>>
       /\ (/\ read_lsp_response
           /\ pc = "def_read"
           /\ step'.outcome = "returned"
           /\ pc' # "sym_read") =>
            /\ pc' = "ident"
            /\ ii' = ii + 1
            /\ fi' = fi
            /\ step'.wrote = <<>>
            /\ ~err'
            /\ UNCHANGED <<printed, collected, printedLocs, fatal>>]_vars

\* The second identifier is next after a definition response that named a
\* location in a file without contents; the first file had been skipped.
C31_Witness ==
    /\ pc = "ident" /\ fi = 2 /\ ii = 2
    /\ step.outcome = "returned"
    /\ step.expected = DEFINITION_MSG_ID
    /\ step.read # <<>> /\ step.read[1].res # 0
    /\ printed = {} /\ collected = {} /\ printedLocs = {}
    /\ ~fatal /\ ~violated

\* C32: a definition request is sent only for a name that is not in
\* printed_defs, and a name is in printed_defs once a resolution of it has
\* reached the test of printed_locations, also when that test found the
\* range recorded and appended nothing; no request is sent for it again.
C32_SeenAtDedup ==
    /\ skipped \subseteq printed_defs
    /\ asked # NoLine => resolved = NoResolved \/ resolved.ident \notin skipped

\* A frame of the pipe that the drain reads as a progress value of the
\* background index, below 100 percent, other than the value seen last.
NewValue(msg) ==
    /\ msg.shape = "ok"
    /\ IsIndexProgress(msg)
    /\ msg.value.percentage # PCT_DONE
    /\ msg.value # last_value

\* C33: in wait_for_clangd_indexing with interval <= max_interval, the
\* interval of the sleep between two drains is never below interval and never
\* above max_interval; the sleep comes after a drain that read no message
\* and doubles the interval up to max_interval, a progress value of the
\* background index that differs from the last one sets it back to interval,
\* and nothing else changes it.
C33_BackoffBounded ==
    /\ []((Indexing /\ interval <= max_interval) =>
            /\ interval <= current_interval
            /\ current_interval <= max_interval)
    /\ [](wpc = "sleep" => ~message_read)
    /\ [][/\ wait_for_clangd_indexing_sleep =>
               current_interval' = Min(2 * current_interval, max_interval)
          /\ wait_for_clangd_indexing_loop => UNCHANGED current_interval
          /\ (wait_for_clangd_indexing_read /\ wpc' = "while") => message_read'
          /\ wait_for_clangd_indexing_read =>
               IF stream # <<>> /\ alive /\ NewValue(Head(stream))
               THEN current_interval' = interval
               ELSE UNCHANGED current_interval]_vars

\* A new progress value has just set the interval back after a sleep had
\* doubled it.
C33_Witness ==
    /\ wpc = "select" /\ message_read
    /\ interval < max_interval
    /\ current_interval = interval
    /\ waited = 0 /\ now >= interval /\ changedAt = now
    /\ last_value \in Values /\ last_value.percentage = PCT_HALF

\* C34: in every state of the resolution pass each file that is a key of
\* collected_defs has at least one record, and a step never removes a key or
\* a record and never changes one: the list of a file after the step begins
\* with the list it had before.
C34_AppendOnly ==
    /\ [](\A f \in DOMAIN collected_defs : collected_defs[f] # <<>>)
    /\ [][\A f \in DOMAIN collected_defs :
            /\ f \in DOMAIN collected_defs'
            /\ Len(collected_defs'[f]) >= Len(collected_defs[f])
            /\ SubSeq(collected_defs'[f], 1, Len(collected_defs[f]))
                 = collected_defs[f]]_vars

\* A second record has been appended to the list of a file.
C34_Witness ==
    /\ rpc = "ident"
    /\ resolved # NoResolved
    /\ Len(collected_defs[resolved.file]) = 2
    /\ collected_defs[resolved.file][1][3] # collected_defs[resolved.file][2][3]

\* The lines of the latest file rendered.
FileLines == 0..(n_lines[ctx_file] - 1)

\* The maximal runs of lines of the file outside the print set, as pairs of
\* their first and last line (0-based).
OmittedRuns ==
    {r \in FileLines \X FileLines :
        /\ r[1] <= r[2]
        /\ \A l \in r[1]..r[2] : l \notin print_lines
        /\ r[1] = 0 \/ (r[1] - 1) \in print_lines
        /\ r[2] = n_lines[ctx_file] - 1 \/ (r[2] + 1) \in print_lines}

\* Where an element of file_context stands in the file: the line it is, or
\* the first line (0-based) of the run its marker replaces.
Position(entry) ==
    IF entry.kind = "line" THEN entry.first ELSE entry.first - 1

\* C35: file_context holds every line of the file that is in the print set,
\* as it is, once, and no other line; for every maximal run of more than 5
\* lines outside the print set one marker stating the 1-based numbers of the
\* run's first and last line, and no other marker; the elements stand in the
\* order of the file, a marker where its run is; and entries of the print
\* set past the end of the file give nothing.
C35_FormatFileContext ==
    (cpc # "start" /\ ctx_file # NoFile /\ essential_lines # {}) =>
        LET entries == 1..Len(file_context) IN
        /\ \A l \in print_lines \cap FileLines :
              Cardinality({k \in entries : file_context[k] = Line(l)}) = 1
        /\ \A r \in OmittedRuns :
              LET marker == [kind |-> "skip", first |-> r[1] + 1,
                             last |-> r[2] + 1] IN
              Cardinality({k \in entries : file_context[k] = marker})
                  = IF r[2] - r[1] + 1 > 5 THEN 1 ELSE 0
        /\ \A k \in entries :
              IF file_context[k].kind = "line"
              THEN /\ file_context[k] = Line(file_context[k].first)
                   /\ file_context[k].first \in print_lines \cap FileLines
              ELSE <<file_context[k].first - 1, file_context[k].last - 1>>
                       \in OmittedRuns
        /\ \A k \in entries \ {1} :
              Position(file_context[k - 1]) < Position(file_context[k])

\* A file of 14 lines was rendered from the print set {10, 16}: a marker for
\* its first ten lines, line 10, and nothing for the entry 16 past its end.
C35_Witness ==
    /\ cpc = "done"
    /\ ctx_file # NoFile
    /\ n_lines[ctx_file] = NumLines - 8
    /\ essential_lines = {10, 16}
    /\ \E l \in print_lines : l >= n_lines[ctx_file]
    /\ file_context = <<[kind |-> "skip", first |-> 1, last |-> 10], Line(10),
                        Line(11), Line(12), Line(13)>>

\* C36: every window/workDoneProgress/create request the client reads is
\* acknowledged, in every read path: one read by the drain of
\* wait_for_clangd_indexing (a read without expected id) has its response
\* written by the time the drain goes on, so before any later request.
C36_DrainAcknowledges == ~unacked

\* C37: the frame a call of _read_lsp_response with an expected id returns
\* is a response: it has no `method` field, whatever id the subprocess gave
\* to a request or notification of its own.
C37_ReturnsResponse ==
    (step.outcome = "returned" /\ step.expected # NoId) =>
        (step.read # <<>> /\ step.read[1].method = "")

\* curses was initialised: the four calls of lines 9-12 have returned.
Initialised ==
    /\ Len(curses_log) >= Len(SetupCalls)
    /\ SubSeq(curses_log, 1, Len(SetupCalls)) = SetupCalls

\* C38: whenever the call has returned or raised after curses was
\* initialised (an option was chosen, "q" was pressed, or an exception was
\* raised while the window was drawn or a key read), nocbreak, keypad(False),
\* echo and endwin have been called, once each and after every other call.
C38_TerminalRestored ==
    (tpc \in {"returned", "raised"} /\ Initialised) =>
        LET n == Len(curses_log)
            restores == {"nocbreak", "keypad(False)", "echo", "endwin"} IN
        /\ n >= Len(SetupCalls) + 4
        /\ {curses_log[k] : k \in (n - 3)..n} = restores
        /\ curses_log[n] = "endwin"
        /\ \A k \in 1..(n - 4) : curses_log[k] \notin restores

\* addstr has raised after the window was created, cleared and boxed.
C38_Witness ==
    /\ tpc = "raised"
    /\ nkeys = 0
    /\ curses_log = SetupCalls \o <<"newwin", "clear", "box">>
                        \o <<"nocbreak", "keypad(False)", "echo", "endwin">>

\* The docker commands the latest call of initialize_shared_build_volume
\* has run.
Ran == {docker_log[k] : k \in 1..Len(docker_log)}

\* C39: the flag is set only by a call whose script succeeded; a call that
\* finds the flag set runs no docker command and returns; a call whose
\* `docker run` or script failed leaves the flag unset and raises; and a
\* call that attempted `docker run` has attempted `docker stop` and
\* `docker rm` of the container when it ends.
C39_FlagAndCleanup ==
    /\ (build_volume_initialized /\ ~entry_flag) =>
          ("exec" \in Ran /\ ~init_error)
    /\ (vpc # "start" /\ entry_flag) => (vpc = "returned" /\ docker_log = <<>>)
    /\ init_error => (~build_volume_initialized /\ vpc \in {"finally", "raised"})
    /\ (vpc \in {"returned", "raised"} /\ "run" \in Ran) =>
          ("stop" \in Ran /\ "rm" \in Ran)

====
